---- MODULE Spec2Model ----
(***************************************************************************)
(* A model of fase3/tcp_socket.py: class TCPSocket, a simplified TCP over  *)
(* UDP datagrams.  Two endpoints, "c" (the side that calls connect) and    *)
(* "s" (the side that calls accept), each with its caller threads, its     *)
(* receiver-loop thread and its retransmission-timer threads, and the      *)
(* datagram channel between them (loss, duplication, reordering).          *)
(*                                                                         *)
(* Time is abstracted: a timeout (socket timeout, retransmission timeout,  *)
(* the bounded waits of close) is an event that may occur whenever the     *)
(* code is waiting for it.  Code executed while holding self.lock is one   *)
(* atomic step; code outside the lock is split where another thread can    *)
(* observe the difference.                                                 *)
(***************************************************************************)
EXTENDS Integers, Sequences, FiniteSets, Bags, TLC

(***************************************************************************)
(* Bounds of the model.                                                    *)
(***************************************************************************)
\* Total number of payload bytes the application of one endpoint passes to send().
MaxBytes == 2
\* Largest receive window an endpoint is constructed with.
MaxWindow == 2
\* Number of retransmission-timer threads of one endpoint alive at once.
MaxTimers == 2
\* Number of datagrams that do not come from the peer's TCPSocket (junk).
MaxJunk == 1
\* Total number of payload bytes passed to send() by a side that also closes.
CloseBytes == 1
\* Total number of payload bytes passed to send() where the send window fills:
\* one byte more than WindowSegments segments of a one-byte window carry.
MaxWindowBytes == 9
\* Number of SYN transmissions of connect() the model follows.
MaxSynSent == 10
\* Number of SYN timeouts of connect() followed when a whole connection is.
MaxRetries == 1
\* Largest window size of the Selective Repeat sender and receiver.
MaxSrWindow == 2
\* Number of chunks in the list passed to SR_Sender.send.
MaxSrChunks == 3
\* Largest window N of the Go-Back-N sender.
MaxGbnWindow == 2
\* Number of payloads passed to GBNSender.send, one per call.
MaxGbnSends == 257
\* Number of Go-Back-N DATA and ACK datagrams in flight: the channel loses
\* what is sent beyond them.
MaxGbnDataInFlight == 2
MaxGbnAckInFlight == 1
\* Number of times the Go-Back-N retransmission timer expires.
MaxGbnTimeouts == 1
\* send() calls on the Go-Back-N sender in the runs that look at its window
MaxGbnBurst == 4
\* Number of messages passed to RDT30Sender.send, one per call.
MaxRdtMsgs == 3
\* Number of times the wait for an ACK in RDT30Sender.send times out.
MaxRdtTimeouts == 1
\* Number of rdt3.0 datagrams in flight in one direction: the channel loses
\* what is sent beyond it.
MaxRdtInFlight == 2
\* Number of positive RTT samples fed to the estimator.
MaxRttSamples == 4

(***************************************************************************)
(* Program constants.                                                      *)
(***************************************************************************)
HeaderLen == 20
FIN_BIT == 1
SYN_BIT == 2
PSH_BIT == 8
ACK_BIT == 16
SYNACK_BITS == 18
DataOffsetWords == 5
OffsetShift == 12
MaxAttempts == 8
TYPE_DATA == 0
TYPE_ACK == 1
SeqSpace == 256
WindowSegments == 8

E == {"c", "s"}
Peer(e) == IF e = "c" THEN "s" ELSE "c"

\* The initial sequence numbers: random.randint(0, 65535) in __init__; two
\* distinct small values stand for the draw.
InitialSeq(e) == IF e = "c" THEN 10 ELSE 20

(***************************************************************************)
(* Segment codec: _pack_segment / _unpack_segment.                         *)
(***************************************************************************)
RECURSIVE BitAnd(_, _)
BitAnd(x, y) ==
    IF x = 0 \/ y = 0 THEN 0
    ELSE (x % 2) * (y % 2) + 2 * BitAnd(x \div 2, y \div 2)

RECURSIVE BitOr(_, _)
BitOr(x, y) ==
    IF x = 0 THEN y
    ELSE IF y = 0 THEN x
    ELSE (IF x % 2 = 1 \/ y % 2 = 1 THEN 1 ELSE 0) + 2 * BitOr(x \div 2, y \div 2)

RECURSIVE ShiftLeft(_, _)
ShiftLeft(x, n) == IF n = 0 THEN x ELSE ShiftLeft(2 * x, n - 1)

\* Python's  name in flags  for the flag strings the code uses.
FlagIn(name, flags) ==
    \/ name = flags
    \/ flags = "SYN-ACK" /\ name \in {"SYN", "ACK"}

FlagBits(flags) ==
    LET b1 == IF FlagIn("FIN", flags) THEN BitOr(0, FIN_BIT) ELSE 0
        b2 == IF FlagIn("SYN", flags) THEN BitOr(b1, SYN_BIT) ELSE b1
        b3 == IF FlagIn("ACK", flags) THEN BitOr(b2, ACK_BIT) ELSE b2
        b4 == IF FlagIn("SYN-ACK", flags) THEN BitOr(b3, SYNACK_BITS) ELSE b3
        b5 == IF FlagIn("PSH", flags) THEN BitOr(b4, PSH_BIT) ELSE b4
    IN  b5

\* A datagram: the UDP source, the 20 header bytes as their fields (hlen is the
\* number of header bytes present), and the payload.
PackSegment(e, raddr, flags, sq, ak, window, data) ==
    [src |-> e, dst |-> raddr, hlen |-> HeaderLen, seq |-> sq, ack |-> ak,
     offset_flags |-> BitOr(ShiftLeft(DataOffsetWords, OffsetShift), FlagBits(flags)),
     window |-> window, data |-> data]

DecodeFlagsSynFirst(offset_flags) ==
    IF BitAnd(offset_flags, SYN_BIT) # 0 THEN "SYN"
    ELSE IF BitAnd(offset_flags, SYNACK_BITS) = SYNACK_BITS THEN "SYN-ACK"
    ELSE IF BitAnd(offset_flags, ACK_BIT) # 0 THEN "ACK"
    ELSE IF BitAnd(offset_flags, FIN_BIT) # 0 THEN "FIN"
    ELSE IF BitAnd(offset_flags, PSH_BIT) # 0 THEN "PSH"
    ELSE ""

DecodeFlags(offset_flags) ==
    IF BitAnd(offset_flags, SYNACK_BITS) = SYNACK_BITS THEN "SYN-ACK"
    ELSE IF BitAnd(offset_flags, SYN_BIT) # 0 THEN "SYN"
    ELSE IF BitAnd(offset_flags, ACK_BIT) # 0 THEN "ACK"
    ELSE IF BitAnd(offset_flags, FIN_BIT) # 0 THEN "FIN"
    ELSE IF BitAnd(offset_flags, PSH_BIT) # 0 THEN "PSH"
    ELSE ""

\* struct.unpack raises struct.error on fewer than 20 bytes.
UnpackRaises(m) == m.hlen < HeaderLen

UnpackSegment(m) ==
    [src_port |-> m.src, dst_port |-> m.dst, seq |-> m.seq, ack |-> m.ack,
     flags |-> DecodeFlags(m.offset_flags), window |-> m.window, data |-> m.data]


(***************************************************************************)
(* State.  One TCPSocket object per endpoint: every field is a function of *)
(* the endpoint.                                                           *)
(***************************************************************************)
VARIABLES
    isn,            \* the value self.seq was constructed with
    seq,            \* self.seq
    ack,            \* self.ack
    recv_window,    \* self.recv_window
    send_buffer,    \* self.send_buffer: seq_base -> [segment, data]
    recv_buffer,    \* self.recv_buffer
    running,        \* self.running
    connected,      \* self.connected
    fin_sent,       \* self.fin_sent
    fin_acked,      \* self.fin_acked
    fin_received,   \* self.fin_received
    timer_running,  \* self._timer_running
    remote_addr,    \* self.remote_addr ("none" for None)
    udp_open,       \* self.udp has not been closed
    udp_timeout,    \* self.udp has a timeout set (settimeout)
    net,            \* datagrams in flight to each endpoint's UDP socket
    timers,         \* the live timer_loop threads of each endpoint (a bag)
    rl_pc,          \* the _receive_loop thread
    rl_addr,        \* its local variable addr while it handles a FIN
    hs_pc,          \* the thread in connect() / accept()
    attempts,       \* connect()'s local variable attempts
    snd_pc,         \* the thread in send()
    snd_data,       \* data[offset:] of the send() call in progress
    rcv_pc,         \* the thread in recv()
    cls_pc,         \* the thread in close()
    sent,           \* history: all bytes passed to send(), in call order
    delivered,      \* history: all bytes returned by recv(), in call order
    syn_sent,       \* history: number of SYN datagrams connect() has transmitted
    junk,           \* number of foreign datagrams that have arrived
    estimated_rtt,  \* self.estimated_rtt, in Tick units
    dev_rtt,        \* self.dev_rtt, in Tick units
    timeout_interval, \* self.timeout_interval, in Tick units
    rtt_samples,    \* history: the positive samples _update_rtt has applied
    codec_in,       \* the arguments of the _pack_segment call under study
    wire,           \* the bytes of one datagram
    codec_out,      \* what _unpack_segment returned for wire
    sr,             \* the SR_Sender, the SR_Receiver and the channel between them
    gbn,            \* the GBNSender, the GBNReceiver and the channel between them
    rdt,            \* the RDT30Sender, the RDT21Receiver and the channel between them
    lk              \* self.lock and self._timer_lock: their holders and the threads using them

vars == <<isn, seq, ack, recv_window, send_buffer, recv_buffer, running, connected,
          fin_sent, fin_acked, fin_received, timer_running, remote_addr, udp_open,
          udp_timeout, net, timers, rl_pc, rl_addr, hs_pc, attempts, snd_pc,
          snd_data, rcv_pc, cls_pc, sent, delivered, syn_sent, junk,
          estimated_rtt, dev_rtt, timeout_interval, rtt_samples,
          codec_in, wire, codec_out, sr, gbn, rdt, lk>>

\* The RTT statistics only feed the length of the retransmission timeout,
\* which the connection model abstracts: its steps leave them alone, as they
\* leave the codec's own state.
rttVars == <<estimated_rtt, dev_rtt, timeout_interval, rtt_samples>>
codecVars == <<codec_in, wire, codec_out>>
\* The objects of fase1 and fase2 are separate programs: no TCPSocket step
\* touches them.
arqVars == <<sr, gbn, rdt>>
\* The connection model takes a locked block as one step; the locks themselves
\* are followed by the steps of their own specification only.
sockVars == <<isn, recv_window, rttVars, codecVars, arqVars, lk>>
tcpVars == <<seq, ack, send_buffer, recv_buffer>>
lifeVars == <<running, connected>>
flagVars == <<fin_sent, fin_acked, fin_received>>
udpVars == <<remote_addr, udp_open, udp_timeout>>
timerVars == <<timer_running, timers>>
rlVars == <<rl_pc, rl_addr>>
hsVars == <<hs_pc, attempts, syn_sent>>
sndVars == <<snd_pc, snd_data>>
histVars == <<sent, delivered>>

Min(S) == CHOOSE x \in S : \A y \in S : x <= y
MinOf(a, b) == IF a <= b THEN a ELSE b
EmptyBuffer == [k \in {} |-> 0]
IsEmpty(sb) == DOMAIN sb = {}
Put(sb, k, v) == [j \in DOMAIN sb \cup {k} |-> IF j = k THEN v ELSE sb[j]]
Prefix(a, b) == Len(a) <= Len(b) /\ a = SubSeq(b, 1, Len(a))
BufferBytes(sb) ==
    LET RECURSIVE Sum(_)
        Sum(S) == IF S = {} THEN 0
                  ELSE LET k == Min(S) IN Len(sb[k].data) + Sum(S \ {k})
    IN  Sum(DOMAIN sb)

\* socket.sendto(seg, to): a closed socket raises OSError, which every caller
\* modelled with this operator swallows; a datagram for a foreign address
\* leaves the model.
SendTo(n, e, to, seg) ==
    IF udp_open[e] /\ to \in E THEN [n EXCEPT ![to] = @ \cup {seg}] ELSE n

(***************************************************************************)
(* The channel.  net[e] holds the datagrams transmitted to e that the      *)
(* channel can still deliver: recvfrom returns any of them (reordering)    *)
(* and a datagram of the peer stays there (it may never be returned: loss  *)
(* or unbounded delay; it may be returned again: duplication).             *)
(***************************************************************************)
\* recvfrom has returned m: a datagram of the peer stays deliverable (the peer
\* retransmits, the channel duplicates); a foreign datagram was sent once.
AfterRecv(n, e, m) == IF m.src \in E THEN n ELSE [n EXCEPT ![e] = @ \ {m}]

\* A well-formed segment from a foreign address: a stale ACK.
ForeignSegment ==
    [src |-> "x", dst |-> "none", hlen |-> HeaderLen, seq |-> 0, ack |-> 0,
     offset_flags |-> BitOr(ShiftLeft(DataOffsetWords, OffsetShift), ACK_BIT),
     window |-> 0, data |-> <<>>]

\* A datagram shorter than the header, from a foreign address.
ShortDatagram ==
    [src |-> "x", dst |-> "none", hlen |-> HeaderLen - 1, seq |-> 0, ack |-> 0,
     offset_flags |-> 0, window |-> 0, data |-> <<>>]


(***************************************************************************)
(* The retransmission timer: _start_timer and its timer_loop threads.      *)
(* A thread is a record [pc, seq, seg]; seq and seg are the entry of       *)
(* resend_list while pc = "resend".                                        *)
(***************************************************************************)
NoSegment ==
    [src |-> "none", dst |-> "none", hlen |-> 0, seq |-> 0, ack |-> 0,
     offset_flags |-> 0, window |-> 0, data |-> <<>>]
TimerAt(pc) == [pc |-> pc, seq |-> 0, seg |-> NoSegment]
TimerThreads(e) == BagToSet(timers[e])
Replace(bag, t, u) == (bag (-) SetToBag({t})) (+) SetToBag({u})

\* _start_timer(): under _timer_lock, return if _timer_running, else set it
\* and start a timer_loop thread.
StartsThread(e) == ~timer_running[e]
TimersAfterStart(e) ==
    IF StartsThread(e) THEN timers[e] (+) SetToBag({TimerAt("loop")}) ELSE timers[e]
CanStartTimer(e) == StartsThread(e) => BagCardinality(timers[e]) < MaxTimers

\* while self.running and self.connected and self._timer_running: sleep(0.05)
TimerLoopHead(e) ==
    /\ \E t \in TimerThreads(e) :
          /\ t.pc = "loop"
          /\ timers' = [timers EXCEPT ![e] =
                Replace(@, t, IF running[e] /\ connected[e] /\ timer_running[e]
                              THEN TimerAt("scan") ELSE TimerAt("exit"))]
    /\ UNCHANGED <<sockVars, tcpVars, lifeVars, flagVars, udpVars, timer_running, net,
                   rlVars, hsVars, sndVars, rcv_pc, cls_pc, histVars, junk>>

\* with self.lock: the oldest entry goes to resend_list if its timeout expired.
TimerScan(e) ==
    /\ \E t \in TimerThreads(e) :
          /\ t.pc = "scan"
          /\ \E expired \in BOOLEAN :
                timers' = [timers EXCEPT ![e] =
                    Replace(@, t,
                        IF ~IsEmpty(send_buffer[e]) /\ expired
                        THEN LET oldest_seq == Min(DOMAIN send_buffer[e])
                             IN  [pc |-> "resend", seq |-> oldest_seq,
                                  seg |-> send_buffer[e][oldest_seq].segment]
                        ELSE TimerAt("endchk"))]
    /\ UNCHANGED <<sockVars, tcpVars, lifeVars, flagVars, udpVars, timer_running, net,
                   rlVars, hsVars, sndVars, rcv_pc, cls_pc, histVars, junk>>

\* for seq, info in resend_list: sendto(info["segment"]); refresh its time.
\* OSError (the socket was closed): continue, back to the loop head.
TimerResend(e) ==
    /\ \E t \in TimerThreads(e) :
          /\ t.pc = "resend"
          /\ net' = SendTo(net, e, remote_addr[e], t.seg)
          /\ timers' = [timers EXCEPT ![e] =
                Replace(@, t, IF udp_open[e] THEN TimerAt("endchk") ELSE TimerAt("loop"))]
    /\ UNCHANGED <<sockVars, tcpVars, lifeVars, flagVars, udpVars, timer_running,
                   rlVars, hsVars, sndVars, rcv_pc, cls_pc, histVars, junk>>

\* with self.lock: if not self.send_buffer: break
TimerEndCheck(e) ==
    /\ \E t \in TimerThreads(e) :
          /\ t.pc = "endchk"
          /\ timers' = [timers EXCEPT ![e] =
                Replace(@, t, IF IsEmpty(send_buffer[e])
                              THEN TimerAt("exit") ELSE TimerAt("loop"))]
    /\ UNCHANGED <<sockVars, tcpVars, lifeVars, flagVars, udpVars, timer_running, net,
                   rlVars, hsVars, sndVars, rcv_pc, cls_pc, histVars, junk>>

\* with self._timer_lock: self._timer_running = False; the thread ends.
TimerExit(e) ==
    /\ TimerAt("exit") \in TimerThreads(e)
    /\ timers' = [timers EXCEPT ![e] = @ (-) SetToBag({TimerAt("exit")})]
    /\ timer_running' = [timer_running EXCEPT ![e] = FALSE]
    /\ UNCHANGED <<sockVars, tcpVars, lifeVars, flagVars, udpVars, net,
                   rlVars, hsVars, sndVars, rcv_pc, cls_pc, histVars, junk>>


(***************************************************************************)
(* send(data)                                                              *)
(***************************************************************************)
\* The application's data: the bytes of the stream are numbered, so that every
\* byte is distinguishable; a call passes the next n of them.
NextData(e, n) == [i \in 1..n |-> Len(sent[e]) + i]

\* if not self.connected: raise ConnectionError
SendNeverRaises(e) == FALSE
SendRaises(e) == ~connected[e]

\* The call: the connected check, then offset = 0.  The application passes
\* at most budget bytes in all.
SendCallWithin(e, budget) ==
    /\ snd_pc[e] \in {"idle", "raised"}
    /\ \E n \in 1..budget :
          /\ Len(sent[e]) + n <= budget
          /\ IF SendRaises(e)
             THEN /\ snd_pc' = [snd_pc EXCEPT ![e] = "raised"]
                  /\ UNCHANGED <<snd_data, sent>>
             ELSE /\ snd_pc' = [snd_pc EXCEPT ![e] = "chunk"]
                  /\ snd_data' = [snd_data EXCEPT ![e] = NextData(e, n)]
                  /\ sent' = [sent EXCEPT ![e] = @ \o NextData(e, n)]
    /\ UNCHANGED <<sockVars, tcpVars, lifeVars, flagVars, udpVars, timerVars, net,
                   rlVars, hsVars, rcv_pc, cls_pc, delivered, junk>>

SendCall(e) == SendCallWithin(e, MaxBytes)

\* while len(self.send_buffer) * self.recv_window >= send_window_max: sleep
WindowFullStrict(e) ==
    Cardinality(DOMAIN send_buffer[e]) * recv_window[e] > recv_window[e] * WindowSegments
WindowFull(e) ==
    Cardinality(DOMAIN send_buffer[e]) * recv_window[e] >= recv_window[e] * WindowSegments

\* chunk = data[offset:offset + self.recv_window]
Chunk(e) == SubSeq(snd_data[e], 1, MinOf(recv_window[e], Len(snd_data[e])))

\* self.seq += len(chunk)
SeqSame(e, chunk) == seq[e]
SeqAfter(e, chunk) == seq[e] + Len(chunk)

\* One iteration of the while loop up to the end of the locked block: build
\* the PSH segment at seq, transmit it, record it, advance seq.
SendChunk(e) ==
    /\ snd_pc[e] = "chunk"
    /\ ~WindowFull(e)
    /\ LET seq_base == seq[e]
           chunk == Chunk(e)
           segment == PackSegment(e, remote_addr[e], "PSH", seq_base, ack[e],
                                  recv_window[e], chunk)
       IN  /\ net' = SendTo(net, e, remote_addr[e], segment)
           /\ send_buffer' = [send_buffer EXCEPT ![e] =
                                Put(@, seq_base, [segment |-> segment, data |-> chunk])]
           /\ seq' = [seq EXCEPT ![e] = SeqAfter(e, chunk)]
           /\ snd_data' = [snd_data EXCEPT ![e] =
                                SubSeq(@, Len(chunk) + 1, Len(@))]
    /\ snd_pc' = [snd_pc EXCEPT ![e] = "arm"]
    /\ UNCHANGED <<sockVars, ack, recv_buffer, lifeVars, flagVars, udpVars, timerVars,
                   rlVars, hsVars, rcv_pc, cls_pc, histVars, junk>>

\* self._start_timer(); offset += len(chunk); back to the loop test.
SendArm(e) ==
    /\ snd_pc[e] = "arm"
    /\ CanStartTimer(e)
    /\ timers' = [timers EXCEPT ![e] = TimersAfterStart(e)]
    /\ timer_running' = [timer_running EXCEPT ![e] = TRUE]
    /\ snd_pc' = [snd_pc EXCEPT ![e] = IF snd_data[e] = <<>> THEN "idle" ELSE "chunk"]
    /\ UNCHANGED <<sockVars, tcpVars, lifeVars, flagVars, udpVars, net,
                   rlVars, hsVars, snd_data, rcv_pc, cls_pc, histVars, junk>>

(***************************************************************************)
(* recv(bufsize)                                                           *)
(***************************************************************************)
RecvCall(e) ==
    /\ rcv_pc[e] \in {"idle", "ret_data", "ret_empty"}
    /\ rcv_pc' = [rcv_pc EXCEPT ![e] = "lock"]
    /\ UNCHANGED <<sockVars, tcpVars, lifeVars, flagVars, udpVars, timerVars, net,
                   rlVars, hsVars, sndVars, cls_pc, histVars, junk>>

\* with self.lock: if len(self.recv_buffer) > 0: return its first bufsize bytes
RecvLocked(e) ==
    /\ rcv_pc[e] = "lock"
    /\ IF Len(recv_buffer[e]) > 0
       THEN \E bufsize \in 1..MaxBytes :
               LET n == MinOf(bufsize, Len(recv_buffer[e]))
               IN  /\ delivered' = [delivered EXCEPT ![e] =
                                       @ \o SubSeq(recv_buffer[e], 1, n)]
                   /\ recv_buffer' = [recv_buffer EXCEPT ![e] =
                                       SubSeq(@, n + 1, Len(@))]
                   /\ rcv_pc' = [rcv_pc EXCEPT ![e] = "ret_data"]
       ELSE /\ rcv_pc' = [rcv_pc EXCEPT ![e] = "flags"]
            /\ UNCHANGED <<delivered, recv_buffer>>
    /\ UNCHANGED <<sockVars, seq, ack, send_buffer, lifeVars, flagVars, udpVars,
                   timerVars, net, rlVars, hsVars, sndVars, cls_pc, sent, junk>>

\* if not self.running and not self.connected: return b""
RecvEnds(e) == ~running[e] /\ ~connected[e]

\* The flag test after the lock is released, then sleep and poll again.
RecvFlags(e) ==
    /\ rcv_pc[e] = "flags"
    /\ rcv_pc' = [rcv_pc EXCEPT ![e] = IF RecvEnds(e) THEN "ret_empty" ELSE "lock"]
    /\ UNCHANGED <<sockVars, tcpVars, lifeVars, flagVars, udpVars, timerVars, net,
                   rlVars, hsVars, sndVars, cls_pc, histVars, junk>>


(***************************************************************************)
(* _receive_loop and _handle_ack                                           *)
(***************************************************************************)
\* while self.running: the test made before the next recvfrom.
LoopHead(e) == IF running[e] THEN "recv" ELSE "exited"

\* _handle_ack: the entries a cumulative ACK confirms, and what is left.
ConfirmedByStart(sb, ack_num) == {k \in DOMAIN sb : k <= ack_num}
ConfirmedExactly(sb, ack_num) == {k \in DOMAIN sb : k + Len(sb[k].data) = ack_num}
Confirmed(sb, ack_num) == {k \in DOMAIN sb : k + Len(sb[k].data) <= ack_num}
Prune(sb, ack_num) == [k \in DOMAIN sb \ Confirmed(sb, ack_num) |-> sb[k]]

\* flag == "ACK": the locked block of _handle_ack (the RTT sample only feeds
\* the timing, which is abstracted).
RlOnAck(e, h) ==
    LET left == Prune(send_buffer[e], h.ack)
    IN  /\ send_buffer' = [send_buffer EXCEPT ![e] = left]
        /\ timer_running' = [timer_running EXCEPT ![e] = IF IsEmpty(left) THEN FALSE ELSE @]
        /\ rl_pc' = [rl_pc EXCEPT ![e] = "ack_tail"]
        /\ UNCHANGED <<seq, ack, recv_buffer, flagVars, timers, rl_addr>>

\* flag == "PSH": in-order data is appended; an ACK is always sent back.
InOrderOrOld(e, h) == h.seq <= ack[e]
InOrder(e, h) == h.seq = ack[e]

\* self.ack += len(payload), only inside `if header["seq"] == self.ack`.
NewAckBySegment(e, h) == IF InOrder(e, h) THEN ack[e] + 1 ELSE ack[e]
NewAckAlways(e, h) == ack[e] + Len(h.data)
NewAck(e, h) == IF InOrder(e, h) THEN ack[e] + Len(h.data) ELSE ack[e]

RlOnPsh(e, h, addr, raddr, n) ==
    LET new_ack == NewAck(e, h)
        ack_segment == PackSegment(e, raddr, "ACK", seq[e], new_ack, recv_window[e], <<>>)
    IN  /\ recv_buffer' = [recv_buffer EXCEPT ![e] =
                              IF InOrder(e, h) THEN @ \o h.data ELSE @]
        /\ ack' = [ack EXCEPT ![e] = new_ack]
        /\ net' = SendTo(n, e, addr, ack_segment)
        /\ rl_pc' = [rl_pc EXCEPT ![e] = LoopHead(e)]
        /\ UNCHANGED <<seq, send_buffer, flagVars, timerVars, rl_addr>>

\* if not self.fin_sent: the passive side answers the FIN with its own.
EchoesFinAlways(e) == TRUE
EchoesFin(e) == ~fin_sent[e]

\* flag == "FIN": record it, acknowledge it, and test fin_sent.
RlOnFin(e, h, addr, raddr, n) ==
    LET ack_segment == PackSegment(e, raddr, "ACK", seq[e], ack[e] + 1, recv_window[e], <<>>)
    IN  /\ fin_received' = [fin_received EXCEPT ![e] = TRUE]
        /\ net' = SendTo(n, e, addr, ack_segment)
        /\ IF EchoesFin(e)
           THEN /\ rl_pc' = [rl_pc EXCEPT ![e] = "fin_tail"]
                /\ rl_addr' = [rl_addr EXCEPT ![e] = addr]
           ELSE /\ rl_pc' = [rl_pc EXCEPT ![e] = LoopHead(e)]
                /\ UNCHANGED rl_addr
        /\ UNCHANGED <<tcpVars, fin_sent, fin_acked, timerVars>>

\* One datagram: recvfrom, _unpack_segment (an exception ends the thread), the
\* remote_addr default, and the dispatch on the flag.
RlReceiveOf(e, m) ==
    /\ rl_pc[e] = "recv"
    /\ udp_open[e]
    /\ m \in net[e]
    /\ LET n == AfterRecv(net, e, m)
           addr == m.src
           raddr == IF remote_addr[e] = "none" THEN addr ELSE remote_addr[e]
           h == UnpackSegment(m)
       IN  IF UnpackRaises(m)
           THEN /\ rl_pc' = [rl_pc EXCEPT ![e] = "crashed"]
                /\ net' = n
                /\ UNCHANGED <<tcpVars, flagVars, timerVars, rl_addr, remote_addr>>
           ELSE /\ remote_addr' = [remote_addr EXCEPT ![e] = raddr]
                /\ CASE h.flags = "ACK" -> RlOnAck(e, h) /\ net' = n
                     [] h.flags = "PSH" -> RlOnPsh(e, h, addr, raddr, n)
                     [] h.flags = "FIN" -> RlOnFin(e, h, addr, raddr, n)
                     [] OTHER -> /\ rl_pc' = [rl_pc EXCEPT ![e] = LoopHead(e)]
                                 /\ net' = n
                                 /\ UNCHANGED <<tcpVars, flagVars, timerVars, rl_addr>>
    /\ UNCHANGED <<sockVars, lifeVars, udp_open, udp_timeout, hsVars, sndVars, rcv_pc,
                   cls_pc, histVars, junk>>

RlReceive(e) == \E m \in net[e] : RlReceiveOf(e, m)

\* _handle_ack after the lock: if self.send_buffer: ...; self._start_timer()
RlAckTail(e) ==
    /\ rl_pc[e] = "ack_tail"
    /\ IF ~IsEmpty(send_buffer[e])
       THEN /\ CanStartTimer(e)
            /\ timers' = [timers EXCEPT ![e] = TimersAfterStart(e)]
            /\ timer_running' = [timer_running EXCEPT ![e] = TRUE]
       ELSE UNCHANGED timerVars
    /\ rl_pc' = [rl_pc EXCEPT ![e] = LoopHead(e)]
    /\ UNCHANGED <<sockVars, tcpVars, lifeVars, flagVars, udpVars, net, rl_addr,
                   hsVars, sndVars, rcv_pc, cls_pc, histVars, junk>>

\* The passive-side FIN: if not self.fin_sent (tested in RlOnFin): send FIN,
\* then self.fin_sent = True.
RlFinTail(e) ==
    /\ rl_pc[e] = "fin_tail"
    /\ net' = SendTo(net, e, rl_addr[e],
                     PackSegment(e, remote_addr[e], "FIN", seq[e], ack[e] + 1,
                                 recv_window[e], <<>>))
    /\ fin_sent' = [fin_sent EXCEPT ![e] = TRUE]
    /\ rl_pc' = [rl_pc EXCEPT ![e] = LoopHead(e)]
    /\ rl_addr' = [rl_addr EXCEPT ![e] = "none"]
    /\ UNCHANGED <<sockVars, tcpVars, lifeVars, fin_acked, fin_received, udpVars,
                   timerVars, hsVars, sndVars, rcv_pc, cls_pc, histVars, junk>>

\* recvfrom raises socket.timeout, a subclass of OSError: except OSError: return
RlReadTimeout(e) ==
    /\ rl_pc[e] = "recv"
    /\ udp_open[e]
    /\ udp_timeout[e]
    /\ rl_pc' = [rl_pc EXCEPT ![e] = "exited"]
    /\ UNCHANGED <<sockVars, tcpVars, lifeVars, flagVars, udpVars, timerVars, net,
                   rl_addr, hsVars, sndVars, rcv_pc, cls_pc, histVars, junk>>

\* recvfrom on the closed socket raises OSError: return
RlSocketClosed(e) ==
    /\ rl_pc[e] = "recv"
    /\ ~udp_open[e]
    /\ rl_pc' = [rl_pc EXCEPT ![e] = "exited"]
    /\ UNCHANGED <<sockVars, tcpVars, lifeVars, flagVars, udpVars, timerVars, net,
                   rl_addr, hsVars, sndVars, rcv_pc, cls_pc, histVars, junk>>

\* A short datagram from a foreign address arrives at e's socket.
JunkShort(e) ==
    /\ junk < MaxJunk
    /\ junk' = junk + 1
    /\ net' = [net EXCEPT ![e] = @ \cup {ShortDatagram}]
    /\ UNCHANGED <<sockVars, tcpVars, lifeVars, flagVars, udpVars, timerVars,
                   rlVars, hsVars, sndVars, rcv_pc, cls_pc, histVars>>

\* A well-formed segment from a foreign address arrives at e's socket.
JunkSegment(e) ==
    /\ junk < MaxJunk
    /\ junk' = junk + 1
    /\ net' = [net EXCEPT ![e] = @ \cup {ForeignSegment}]
    /\ UNCHANGED <<sockVars, tcpVars, lifeVars, flagVars, udpVars, timerVars,
                   rlVars, hsVars, sndVars, rcv_pc, cls_pc, histVars>>


(***************************************************************************)
(* close()                                                                 *)
(***************************************************************************)
\* if not self.connected: self.udp.close(); return.  Otherwise start waiting
\* for the send buffer to drain.
CloseCall(e) ==
    /\ cls_pc[e] = "idle"
    /\ IF ~connected[e]
       THEN /\ udp_open' = [udp_open EXCEPT ![e] = FALSE]
            /\ cls_pc' = [cls_pc EXCEPT ![e] = "done"]
       ELSE /\ cls_pc' = [cls_pc EXCEPT ![e] = "drain"]
            /\ UNCHANGED udp_open
    /\ UNCHANGED <<sockVars, tcpVars, lifeVars, flagVars, remote_addr, udp_timeout,
                   timerVars, net, rlVars, hsVars, sndVars, rcv_pc, histVars, junk>>

\* if not self.fin_sent: the test that follows the drain loop.
AfterDrain(e) == IF fin_sent[e] THEN "wait" ELSE "fin_send"

\* The drain loop left whatever the buffer holds.
CloseDrainSkipped(e) ==
    /\ cls_pc[e] = "drain"
    /\ cls_pc' = [cls_pc EXCEPT ![e] = AfterDrain(e)]
    /\ UNCHANGED <<sockVars, tcpVars, lifeVars, flagVars, udpVars, timerVars, net,
                   rlVars, hsVars, sndVars, rcv_pc, histVars, junk>>

\* while self.send_buffer and elapsed < 15.0: the buffer has drained.
CloseDrained(e) ==
    /\ cls_pc[e] = "drain"
    /\ IsEmpty(send_buffer[e])
    /\ cls_pc' = [cls_pc EXCEPT ![e] = AfterDrain(e)]
    /\ UNCHANGED <<sockVars, tcpVars, lifeVars, flagVars, udpVars, timerVars, net,
                   rlVars, hsVars, sndVars, rcv_pc, histVars, junk>>

\* ... or the 15 seconds have passed with the buffer not empty.
CloseDrainUnbounded(e) ==
    /\ cls_pc[e] = "drain"
    /\ FALSE
    /\ UNCHANGED vars

CloseDrainTimeout(e) ==
    /\ cls_pc[e] = "drain"
    /\ ~IsEmpty(send_buffer[e])
    /\ cls_pc' = [cls_pc EXCEPT ![e] = AfterDrain(e)]
    /\ UNCHANGED <<sockVars, tcpVars, lifeVars, flagVars, udpVars, timerVars, net,
                   rlVars, hsVars, sndVars, rcv_pc, histVars, junk>>

\* Send the FIN (if self.remote_addr), then self.fin_sent = True.
CloseSendFin(e) ==
    /\ cls_pc[e] = "fin_send"
    /\ net' = IF remote_addr[e] # "none"
              THEN SendTo(net, e, remote_addr[e],
                          PackSegment(e, remote_addr[e], "FIN", seq[e], ack[e],
                                      recv_window[e], <<>>))
              ELSE net
    /\ fin_sent' = [fin_sent EXCEPT ![e] = TRUE]
    /\ cls_pc' = [cls_pc EXCEPT ![e] = "wait"]
    /\ UNCHANGED <<sockVars, tcpVars, lifeVars, fin_acked, fin_received, udpVars,
                   timerVars, rlVars, hsVars, sndVars, rcv_pc, histVars, junk>>

\* The wait for fin_received and fin_acked ends (both seen, or 2 seconds have
\* passed); then, if a FIN was received and not acknowledged, the final ACK.
SendsFinalAck(e) == fin_received[e] /\ ~fin_acked[e]

CloseWaitEnd(e) ==
    /\ cls_pc[e] = "wait"
    /\ IF SendsFinalAck(e)
       THEN /\ net' = IF remote_addr[e] # "none"
                      THEN SendTo(net, e, remote_addr[e],
                                  PackSegment(e, remote_addr[e], "ACK", seq[e] + 1,
                                              ack[e], recv_window[e], <<>>))
                      ELSE net
            /\ fin_acked' = [fin_acked EXCEPT ![e] = TRUE]
       ELSE UNCHANGED <<net, fin_acked>>
    /\ cls_pc' = [cls_pc EXCEPT ![e] = "stop"]
    /\ UNCHANGED <<sockVars, tcpVars, lifeVars, fin_sent, fin_received, udpVars,
                   timerVars, rlVars, hsVars, sndVars, rcv_pc, histVars, junk>>

\* self.running = False
CloseStop(e) ==
    /\ cls_pc[e] = "stop"
    /\ running' = [running EXCEPT ![e] = FALSE]
    /\ cls_pc' = [cls_pc EXCEPT ![e] = "disc"]
    /\ UNCHANGED <<sockVars, tcpVars, connected, flagVars, udpVars, timerVars, net,
                   rlVars, hsVars, sndVars, rcv_pc, histVars, junk>>

\* self.thread.join(timeout=0.1) returns; self.connected = False
CloseDisconnect(e) ==
    /\ cls_pc[e] = "disc"
    /\ connected' = [connected EXCEPT ![e] = FALSE]
    /\ cls_pc' = [cls_pc EXCEPT ![e] = "rel"]
    /\ UNCHANGED <<sockVars, tcpVars, running, flagVars, udpVars, timerVars, net,
                   rlVars, hsVars, sndVars, rcv_pc, histVars, junk>>

\* self.udp.close(); close() returns.
CloseRelease(e) ==
    /\ cls_pc[e] = "rel"
    /\ udp_open' = [udp_open EXCEPT ![e] = FALSE]
    /\ cls_pc' = [cls_pc EXCEPT ![e] = "done"]
    /\ UNCHANGED <<sockVars, tcpVars, lifeVars, flagVars, remote_addr, udp_timeout,
                   timerVars, net, rlVars, hsVars, sndVars, rcv_pc, histVars, junk>>

(***************************************************************************)
(* The RTT estimator: _update_rtt and the recomputation in _handle_ack.    *)
(* The code computes in floating-point seconds; the model computes the     *)
(* same expressions exactly, in units of 1/Tick of a millisecond, fine     *)
(* enough for every division of a run to leave no remainder.               *)
(***************************************************************************)
Tick == 2^16
Ms(n) == n * Tick
Abs(x) == IF x < 0 THEN -x ELSE x

InitialEstimatedRtt == Ms(300)
InitialDevRtt == Ms(150)
InitialTimeout == Ms(1000)
MinTimeout == Ms(100)
MaxTimeout == Ms(3000)

\* __init__: estimated_rtt = 0.3, dev_rtt = 0.15, timeout_interval = 1.0
RttInitial ==
    /\ estimated_rtt = InitialEstimatedRtt
    /\ dev_rtt = InitialDevRtt
    /\ timeout_interval = InitialTimeout
    /\ rtt_samples = <<>>

\* No fase1 or fase2 object has been constructed.
Absent == [pc |-> "absent"]
NoArq == sr = Absent /\ gbn = Absent /\ rdt = Absent
\* The locks are outside the specification at hand.
NoLocks == lk = Absent

\* max(0.1, min(x, 3.0))
ClampLowOnly(x) == IF MinTimeout >= x THEN MinTimeout ELSE x
Clamp(x) ==
    LET low == IF x <= MaxTimeout THEN x ELSE MaxTimeout
    IN  IF MinTimeout >= low THEN MinTimeout ELSE low

\* if self.estimated_rtt == 0.3: the test that takes a sample for the first
Seeds(est) == est = InitialEstimatedRtt

\* estimated_rtt = sample_rtt; dev_rtt = sample_rtt / 2
Seeded(sample) == [est |-> sample, dev |-> sample \div 2]

\* estimated_rtt = (1 - alpha) * estimated_rtt + alpha * sample_rtt, then
\* dev_rtt = (1 - beta) * dev_rtt + beta * abs(sample_rtt - estimated_rtt)
\* with the estimate just updated; alpha = 0.125 = 1/8, beta = 0.25 = 1/4.
Weighted(est, dev, sample) ==
    LET new_est == (7 * est + sample) \div 8
    IN  [est |-> new_est, dev |-> (3 * dev + Abs(sample - new_est)) \div 4]

\* _update_rtt(sample_rtt)
UpdateRtt(sample) ==
    /\ Len(rtt_samples) < MaxRttSamples
    /\ IF sample <= 0
       THEN UNCHANGED rttVars
       ELSE LET new == IF Seeds(estimated_rtt)
                       THEN Seeded(sample)
                       ELSE Weighted(estimated_rtt, dev_rtt, sample)
            IN  /\ estimated_rtt' = new.est
                /\ dev_rtt' = new.dev
                /\ timeout_interval' = Clamp(new.est + 4 * new.dev)
                /\ rtt_samples' = Append(rtt_samples, sample)
    /\ UNCHANGED <<isn, recv_window, arqVars, lk, codecVars, tcpVars, lifeVars, flagVars, udpVars,
                   timerVars, net, rlVars, hsVars, sndVars, rcv_pc, cls_pc, histVars, junk>>

\* _handle_ack, with segments still unacknowledged:
\* self.timeout_interval = max(0.1, min(estimated_rtt + 4 * dev_rtt, 3.0))
AckRecompute ==
    /\ timeout_interval' = Clamp(estimated_rtt + 4 * dev_rtt)
    /\ UNCHANGED <<estimated_rtt, dev_rtt, rtt_samples>>
    /\ UNCHANGED <<isn, recv_window, arqVars, lk, codecVars, tcpVars, lifeVars, flagVars, udpVars,
                   timerVars, net, rlVars, hsVars, sndVars, rcv_pc, cls_pc, histVars, junk>>

(***************************************************************************)
(* The codec on bytes: struct.pack("!HHIIHHHH", ...) + data and its        *)
(* inverse.  A datagram record of the connection model is the field view   *)
(* of these bytes.                                                         *)
(***************************************************************************)
\* Big-endian unsigned fields of 2 and 4 bytes.
U32Short(x) == <<0, 0, (x \div 256) % 256, x % 256>>
U16(x) == <<(x \div 256) % 256, x % 256>>
U32(x) == <<(x \div 16777216) % 256, (x \div 65536) % 256, (x \div 256) % 256, x % 256>>

RECURSIVE FromBytes(_)
FromBytes(bs) ==
    IF bs = <<>> THEN 0
    ELSE 256 * FromBytes(SubSeq(bs, 1, Len(bs) - 1)) + bs[Len(bs)]

\* The UDP port of an address; 0 stands in the header for no remote address.
PortOf(a) == IF a = "c" THEN 5001 ELSE IF a = "s" THEN 5000 ELSE 0

HeaderBytes(m) ==
    U16(PortOf(m.src)) \o U16(PortOf(m.dst)) \o U32(m.seq) \o U32(m.ack)
        \o U16(m.offset_flags) \o U16(m.window) \o U16(0) \o U16(0)

\* header + data (a datagram cut short keeps the first hlen header bytes)
SegmentBytes(m) == SubSeq(HeaderBytes(m), 1, m.hlen) \o m.data

\* _unpack_segment on bytes: header = segment[:20], data = segment[20:]
UnpackBytes(segment) ==
    LET header == SubSeq(segment, 1, MinOf(HeaderLen, Len(segment)))
        data == SubSeq(segment, HeaderLen + 1, Len(segment))
    IN  [src_port |-> FromBytes(SubSeq(header, 1, 2)),
         dst_port |-> FromBytes(SubSeq(header, 3, 4)),
         seq |-> FromBytes(SubSeq(header, 5, 8)),
         ack |-> FromBytes(SubSeq(header, 9, 12)),
         flags |-> DecodeFlags(FromBytes(SubSeq(header, 13, 14))),
         window |-> FromBytes(SubSeq(header, 15, 16)),
         data |-> data]

NoCall == [flags |-> "none"]
NoOutput == [flags |-> "none"]
CodecIdle ==
    /\ codec_in = NoCall
    /\ wire = <<>>
    /\ codec_out = NoOutput

\* segment = self._pack_segment(flags, seq, ack, window, data)
CodecPack ==
    /\ codec_in # NoCall
    /\ wire = <<>>
    /\ wire' = SegmentBytes(PackSegment("c", "s", codec_in.flags, codec_in.seq,
                                        codec_in.ack, codec_in.window, codec_in.data))
    /\ UNCHANGED <<codec_in, codec_out>>
    /\ UNCHANGED <<isn, recv_window, arqVars, lk, rttVars, tcpVars, lifeVars, flagVars, udpVars,
                   timerVars, net, rlVars, hsVars, sndVars, rcv_pc, cls_pc, histVars, junk>>

\* header = self._unpack_segment(data) on a datagram of at least 20 bytes
CodecUnpack ==
    /\ Len(wire) >= HeaderLen
    /\ codec_out = NoOutput
    /\ codec_out' = UnpackBytes(wire)
    /\ UNCHANGED <<codec_in, wire>>
    /\ UNCHANGED <<isn, recv_window, arqVars, lk, rttVars, tcpVars, lifeVars, flagVars, udpVars,
                   timerVars, net, rlVars, hsVars, sndVars, rcv_pc, cls_pc, histVars, junk>>

(***************************************************************************)
(* connect(remote_addr)                                                    *)
(***************************************************************************)
\* self.ack = header["seq"] + 1
ConnectAck(h) == h.seq + 1

\* self.seq += 1, in connect() after the final ACK and in accept() on it.
SeqKept(e) == seq[e]
SeqEstablished(e) == seq[e] + 1

\* self.remote_addr = remote_addr; syn = _pack_segment("SYN", ...); attempts = 0
ConnectCall(e) ==
    /\ hs_pc[e] = "idle"
    /\ cls_pc[e] = "idle"
    /\ remote_addr' = [remote_addr EXCEPT ![e] = Peer(e)]
    /\ attempts' = 0
    /\ hs_pc' = [hs_pc EXCEPT ![e] = "syn_send"]
    /\ UNCHANGED <<sockVars, tcpVars, lifeVars, flagVars, udp_open, udp_timeout,
                   timerVars, net, rlVars, syn_sent, sndVars, rcv_pc, cls_pc,
                   histVars, junk>>

\* The head of the while True loop: sendto(syn), settimeout(1.0).  The SYN
\* is the one packed at the call: seq = self.seq, ack = 0.
ConnectSendSyn(e) ==
    /\ hs_pc[e] = "syn_send"
    /\ syn_sent < MaxSynSent
    /\ net' = SendTo(net, e, remote_addr[e],
                     PackSegment(e, remote_addr[e], "SYN", seq[e], 0, recv_window[e], <<>>))
    /\ syn_sent' = syn_sent + 1
    /\ udp_timeout' = [udp_timeout EXCEPT ![e] = TRUE]
    /\ hs_pc' = [hs_pc EXCEPT ![e] = "syn_wait"]
    /\ UNCHANGED <<sockVars, tcpVars, lifeVars, flagVars, remote_addr, udp_open,
                   timerVars, rlVars, attempts, sndVars, rcv_pc, cls_pc, histVars, junk>>

\* recvfrom returns a datagram: _unpack_segment (struct.error is not caught
\* by except socket.timeout and leaves connect), then the SYN-ACK test; any
\* other segment goes round the loop with attempts as it is.
ConnectRecv(e) ==
    /\ hs_pc[e] = "syn_wait"
    /\ \E m \in net[e] :
          LET h == UnpackSegment(m)
          IN  /\ net' = AfterRecv(net, e, m)
              /\ IF UnpackRaises(m)
                 THEN /\ hs_pc' = [hs_pc EXCEPT ![e] = "struct_error"]
                      /\ UNCHANGED ack
                 ELSE IF h.flags = "SYN-ACK"
                 THEN /\ ack' = [ack EXCEPT ![e] = ConnectAck(h)]
                      /\ hs_pc' = [hs_pc EXCEPT ![e] = "ack_send"]
                 ELSE /\ hs_pc' = [hs_pc EXCEPT ![e] = "syn_send"]
                      /\ UNCHANGED ack
    /\ UNCHANGED <<sockVars, seq, send_buffer, recv_buffer, lifeVars, flagVars,
                   udpVars, timerVars, rlVars, attempts, syn_sent, sndVars, rcv_pc,
                   cls_pc, histVars, junk>>

\* except socket.timeout: attempts += 1; raise TimeoutError when attempts >= 8
\* or when more than 12 s have passed since the call (late).
ConnectTimeout(e) ==
    /\ hs_pc[e] = "syn_wait"
    /\ attempts' = attempts + 1
    /\ \E late \in BOOLEAN :
          hs_pc' = [hs_pc EXCEPT ![e] =
                       IF attempts + 1 >= MaxAttempts \/ late
                       THEN "timeout_error" ELSE "syn_send"]
    /\ UNCHANGED <<sockVars, tcpVars, lifeVars, flagVars, udpVars, timerVars, net,
                   rlVars, syn_sent, sndVars, rcv_pc, cls_pc, histVars, junk>>

\* After the loop: the final ACK, self.seq += 1, connected, running, and the
\* receiver thread is started.
ConnectSendAck(e) ==
    /\ hs_pc[e] = "ack_send"
    /\ net' = SendTo(net, e, remote_addr[e],
                     PackSegment(e, remote_addr[e], "ACK", seq[e] + 1, ack[e],
                                 recv_window[e], <<>>))
    /\ seq' = [seq EXCEPT ![e] = SeqEstablished(e)]
    /\ connected' = [connected EXCEPT ![e] = TRUE]
    /\ running' = [running EXCEPT ![e] = TRUE]
    /\ rl_pc' = [rl_pc EXCEPT ![e] = "recv"]
    /\ hs_pc' = [hs_pc EXCEPT ![e] = "done"]
    /\ UNCHANGED <<sockVars, ack, send_buffer, recv_buffer, flagVars, udpVars,
                   timerVars, rl_addr, attempts, syn_sent, sndVars, rcv_pc, cls_pc,
                   histVars, junk>>

(***************************************************************************)
(* accept()                                                                *)
(***************************************************************************)
\* self.ack = header["seq"] + 1
AcceptAckSame(h) == h.seq
AcceptAck(h) == h.seq + 1

AcceptCall(e) ==
    /\ hs_pc[e] = "idle"
    /\ cls_pc[e] = "idle"
    /\ hs_pc' = [hs_pc EXCEPT ![e] = "listen"]
    /\ UNCHANGED <<sockVars, tcpVars, lifeVars, flagVars, udpVars, timerVars, net,
                   rlVars, attempts, syn_sent, sndVars, rcv_pc, cls_pc, histVars, junk>>

\* The outer recvfrom returns a datagram: on a SYN, remote_addr, ack, the
\* SYN-ACK reply and settimeout(3.0); anything else goes round the loop.
\* struct.error from _unpack_segment is not caught.
AcceptRecv(e) ==
    /\ hs_pc[e] = "listen"
    /\ \E m \in net[e] :
          LET n == AfterRecv(net, e, m)
              addr == m.src
              h == UnpackSegment(m)
          IN  IF UnpackRaises(m)
              THEN /\ hs_pc' = [hs_pc EXCEPT ![e] = "struct_error"]
                   /\ net' = n
                   /\ UNCHANGED <<ack, remote_addr, udp_timeout>>
              ELSE IF h.flags = "SYN"
              THEN /\ remote_addr' = [remote_addr EXCEPT ![e] = addr]
                   /\ ack' = [ack EXCEPT ![e] = AcceptAck(h)]
                   /\ net' = SendTo(n, e, addr,
                                    PackSegment(e, addr, "SYN-ACK", seq[e], AcceptAck(h),
                                                recv_window[e], <<>>))
                   /\ udp_timeout' = [udp_timeout EXCEPT ![e] = TRUE]
                   /\ hs_pc' = [hs_pc EXCEPT ![e] = "ack_wait"]
              ELSE /\ net' = n
                   /\ UNCHANGED <<ack, remote_addr, udp_timeout, hs_pc>>
    /\ UNCHANGED <<sockVars, seq, send_buffer, recv_buffer, lifeVars, flagVars,
                   udp_open, timerVars, rlVars, attempts, syn_sent, sndVars, rcv_pc,
                   cls_pc, histVars, junk>>

\* The outer recvfrom is outside the try: once settimeout(3.0) has been
\* called, its socket.timeout leaves accept().
AcceptListenTimeout(e) ==
    /\ hs_pc[e] = "listen"
    /\ udp_timeout[e]
    /\ hs_pc' = [hs_pc EXCEPT ![e] = "socket_timeout"]
    /\ UNCHANGED <<sockVars, tcpVars, lifeVars, flagVars, udpVars, timerVars, net,
                   rlVars, attempts, syn_sent, sndVars, rcv_pc, cls_pc, histVars, junk>>

\* if hdr["flags"] == "ACK" and hdr["ack"] == self.seq + 1
CompletesOnAnyAck(e, h) == h.flags = "ACK"
CompletesHandshake(e, h) == h.flags = "ACK" /\ h.ack = seq[e] + 1

\* The inner recvfrom returns a datagram: the final ACK completes accept();
\* anything else falls out of the try and goes round the outer loop.
AcceptRecvAck(e) ==
    /\ hs_pc[e] = "ack_wait"
    /\ \E m \in net[e] :
          LET h == UnpackSegment(m)
          IN  /\ net' = AfterRecv(net, e, m)
              /\ IF UnpackRaises(m)
                 THEN /\ hs_pc' = [hs_pc EXCEPT ![e] = "struct_error"]
                      /\ UNCHANGED <<seq, lifeVars, rl_pc>>
                 ELSE IF CompletesHandshake(e, h)
                 THEN /\ seq' = [seq EXCEPT ![e] = SeqEstablished(e)]
                      /\ connected' = [connected EXCEPT ![e] = TRUE]
                      /\ running' = [running EXCEPT ![e] = TRUE]
                      /\ rl_pc' = [rl_pc EXCEPT ![e] = "recv"]
                      /\ hs_pc' = [hs_pc EXCEPT ![e] = "done"]
                 ELSE /\ hs_pc' = [hs_pc EXCEPT ![e] = "listen"]
                      /\ UNCHANGED <<seq, lifeVars, rl_pc>>
    /\ UNCHANGED <<sockVars, ack, send_buffer, recv_buffer, flagVars, udpVars,
                   timerVars, rl_addr, attempts, syn_sent, sndVars, rcv_pc, cls_pc,
                   histVars, junk>>

\* except socket.timeout: continue
AcceptAckTimeout(e) ==
    /\ hs_pc[e] = "ack_wait"
    /\ hs_pc' = [hs_pc EXCEPT ![e] = "listen"]
    /\ UNCHANGED <<sockVars, tcpVars, lifeVars, flagVars, udpVars, timerVars, net,
                   rlVars, attempts, syn_sent, sndVars, rcv_pc, cls_pc, histVars, junk>>

(***************************************************************************)
(* The handshake.  The initial state is the state __init__ leaves: seq is  *)
(* the random initial sequence number (the two endpoints may draw the same *)
(* one), ack = 0, nothing connected, no thread started.  "c" calls         *)
(* connect(), "s" calls accept(); foreign datagrams may arrive at either.  *)
(***************************************************************************)
IsnChoices == {InitialSeq(e) : e \in E}

Constructed ==
    /\ isn \in [E -> IsnChoices]
    /\ recv_window = [e \in E |-> 1]
    /\ seq = isn
    /\ ack = [e \in E |-> 0]
    /\ send_buffer = [e \in E |-> EmptyBuffer]
    /\ recv_buffer = [e \in E |-> <<>>]
    /\ running = [e \in E |-> FALSE]
    /\ connected = [e \in E |-> FALSE]
    /\ fin_sent = [e \in E |-> FALSE]
    /\ fin_acked = [e \in E |-> FALSE]
    /\ fin_received = [e \in E |-> FALSE]
    /\ timer_running = [e \in E |-> FALSE]
    /\ remote_addr = [e \in E |-> "none"]
    /\ udp_open = [e \in E |-> TRUE]
    /\ udp_timeout = [e \in E |-> FALSE]
    /\ net = [e \in E |-> {}]
    /\ timers = [e \in E |-> EmptyBag]
    /\ rl_pc = [e \in E |-> "unstarted"]
    /\ rl_addr = [e \in E |-> "none"]
    /\ hs_pc = [e \in E |-> "idle"]
    /\ attempts = 0
    /\ syn_sent = 0
    /\ snd_pc = [e \in E |-> "idle"]
    /\ snd_data = [e \in E |-> <<>>]
    /\ rcv_pc = [e \in E |-> "idle"]
    /\ cls_pc = [e \in E |-> "idle"]
    /\ sent = [e \in E |-> <<>>]
    /\ delivered = [e \in E |-> <<>>]
    /\ junk = 0
    /\ RttInitial
    /\ CodecIdle

InitHs == Constructed /\ NoArq /\ NoLocks

NextHs ==
    \/ ConnectCall("c")
    \/ ConnectSendSyn("c")
    \/ ConnectRecv("c")
    \/ ConnectTimeout("c")
    \/ ConnectSendAck("c")
    \/ AcceptCall("s")
    \/ AcceptRecv("s")
    \/ AcceptListenTimeout("s")
    \/ AcceptRecvAck("s")
    \/ AcceptAckTimeout("s")
    \/ \E e \in E : RlReceive(e)
    \/ \E e \in E : RlReadTimeout(e)
    \/ \E e \in E : JunkShort(e)
    \/ \E e \in E : JunkSegment(e)

SpecHs == InitHs /\ [][NextHs]_vars

\* The same, with a second client: its SYN, from another address and with
\* its own initial sequence number, may arrive at the accepting socket.
RivalSyn == PackSegment("x", "s", "SYN", InitialSeq("c") - 1, 0, 1, <<>>)

JunkSyn(e) ==
    /\ junk < MaxJunk
    /\ junk' = junk + 1
    /\ net' = [net EXCEPT ![e] = @ \cup {RivalSyn}]
    /\ UNCHANGED <<sockVars, tcpVars, lifeVars, flagVars, udpVars, timerVars,
                   rlVars, hsVars, sndVars, rcv_pc, cls_pc, histVars>>

NextRival ==
    \/ NextHs
    \/ JunkSyn("s")

SpecRival == InitHs /\ [][NextRival]_vars

(***************************************************************************)
(* Data transfer between two established endpoints.  The initial state is  *)
(* the state connect() and accept() leave: seq = isn + 1, ack = the peer's *)
(* isn + 1, both receiver loops started, the socket timeouts set.  The     *)
(* "c" side sends, the "s" side receives.                                  *)
(***************************************************************************)
Established ==
    /\ isn = [e \in E |-> InitialSeq(e)]
    /\ \E w \in 1..MaxWindow : recv_window = [e \in E |-> IF e = "c" THEN w ELSE 1]
    /\ seq = [e \in E |-> InitialSeq(e) + 1]
    /\ ack = [e \in E |-> InitialSeq(Peer(e)) + 1]
    /\ send_buffer = [e \in E |-> EmptyBuffer]
    /\ recv_buffer = [e \in E |-> <<>>]
    /\ running = [e \in E |-> TRUE]
    /\ connected = [e \in E |-> TRUE]
    /\ fin_sent = [e \in E |-> FALSE]
    /\ fin_acked = [e \in E |-> FALSE]
    /\ fin_received = [e \in E |-> FALSE]
    /\ timer_running = [e \in E |-> FALSE]
    /\ remote_addr = [e \in E |-> Peer(e)]
    /\ udp_open = [e \in E |-> TRUE]
    /\ udp_timeout = [e \in E |-> TRUE]
    /\ net = [e \in E |-> {}]
    /\ timers = [e \in E |-> EmptyBag]
    /\ rl_pc = [e \in E |-> "recv"]
    /\ rl_addr = [e \in E |-> "none"]
    /\ hs_pc = [e \in E |-> "done"]
    /\ attempts = 0
    /\ syn_sent = 1
    /\ snd_pc = [e \in E |-> "idle"]
    /\ snd_data = [e \in E |-> <<>>]
    /\ rcv_pc = [e \in E |-> "idle"]
    /\ cls_pc = [e \in E |-> "idle"]
    /\ sent = [e \in E |-> <<>>]
    /\ delivered = [e \in E |-> <<>>]
    /\ junk = 0
    /\ RttInitial
    /\ NoArq
    /\ NoLocks
    /\ CodecIdle

InitXfer == Established

NextXfer ==
    \/ SendCall("c")
    \/ SendChunk("c")
    \/ SendArm("c")
    \/ RecvCall("s")
    \/ RecvLocked("s")
    \/ RecvFlags("s")
    \/ \E e \in E : RlReceive(e)
    \/ \E e \in E : RlAckTail(e)
    \/ \E e \in E : RlReadTimeout(e)
    \/ TimerLoopHead("c")
    \/ TimerScan("c")
    \/ TimerResend("c")
    \/ TimerEndCheck("c")
    \/ TimerExit("c")

SpecXfer == InitXfer /\ [][NextXfer]_vars

\* The same, with a datagram shorter than the header arriving at the receiver.
NextJunk ==
    \/ NextXfer
    \/ JunkShort("s")

SpecJunk == InitXfer /\ [][NextJunk]_vars

(***************************************************************************)
(* Data transfer under fair scheduling and a fair-lossy channel.  Every    *)
(* thread that can take its next step eventually takes it, the receiving   *)
(* application keeps calling recv(), and a datagram that is in flight      *)
(* again and again while the receiver loop waits in recvfrom is eventually *)
(* returned by it.  Nothing forces a socket timeout to happen, and nothing *)
(* forces the application to call send().                                  *)
(***************************************************************************)
\* Every segment the two endpoints can transmit during the transfer.
DataSegments ==
    {PackSegment("c", "s", "PSH", InitialSeq("c") + k, InitialSeq("s") + 1, w,
                 [i \in 1..n |-> k + i - 1]) :
        w \in 1..MaxWindow, k \in 1..MaxBytes, n \in 1..MaxWindow}
AckSegments ==
    {PackSegment("s", "c", "ACK", InitialSeq("s") + 1, InitialSeq("c") + k, 1, <<>>) :
        k \in 1..(MaxBytes + 1)}

FairThreads ==
    /\ WF_vars(SendChunk("c"))
    /\ WF_vars(SendArm("c"))
    /\ WF_vars(RecvCall("s"))
    /\ WF_vars(RecvLocked("s"))
    /\ WF_vars(RecvFlags("s"))
    /\ \A e \in E : WF_vars(RlAckTail(e))
    /\ WF_vars(TimerLoopHead("c"))
    /\ WF_vars(TimerScan("c"))
    /\ WF_vars(TimerResend("c"))
    /\ WF_vars(TimerEndCheck("c"))
    /\ WF_vars(TimerExit("c"))

FairLossy ==
    /\ \A m \in DataSegments : SF_vars(RlReceiveOf("s", m))
    /\ \A m \in AckSegments : SF_vars(RlReceiveOf("c", m))

\* The sender is constructed with the smallest window: one byte per segment.
InitLive == Established /\ recv_window["c"] = 1

SpecLive == InitLive /\ [][NextXfer]_vars /\ FairThreads /\ FairLossy

(***************************************************************************)
(* Data transfer and teardown: as above, and either side may call close()  *)
(* at any moment.                                                          *)
(***************************************************************************)
\* The caller's thread of the closing side: send() calls, then close(), then
\* possibly send() again.
AppSend(e) == cls_pc[e] \in {"idle", "done"} /\ SendCallWithin(e, CloseBytes)
AppClose(e) == snd_pc[e] \in {"idle", "raised"} /\ CloseCall(e)

CloseStep(e) ==
    \/ AppClose(e)
    \/ CloseDrained(e)
    \/ CloseDrainTimeout(e)
    \/ CloseSendFin(e)
    \/ CloseWaitEnd(e)
    \/ CloseStop(e)
    \/ CloseDisconnect(e)
    \/ CloseRelease(e)

NextClose ==
    \/ AppSend("c")
    \/ SendChunk("c")
    \/ SendArm("c")
    \/ \E e \in E : RlReceive(e)
    \/ \E e \in E : RlAckTail(e)
    \/ \E e \in E : RlFinTail(e)
    \/ \E e \in E : RlReadTimeout(e)
    \/ \E e \in E : RlSocketClosed(e)
    \/ TimerLoopHead("c")
    \/ TimerScan("c")
    \/ TimerResend("c")
    \/ TimerEndCheck("c")
    \/ TimerExit("c")
    \/ CloseStep("c")

\* Scheduling: a thread that can take its next step eventually takes it, and
\* a wait with a time bound eventually ends.  Stated for the thread in
\* close() and for the receiver loop of the closing side.
FairClose ==
    /\ WF_vars(CloseDrained("c"))
    /\ WF_vars(CloseDrainTimeout("c"))
    /\ WF_vars(CloseSendFin("c"))
    /\ WF_vars(CloseWaitEnd("c"))
    /\ WF_vars(CloseStop("c"))
    /\ WF_vars(CloseDisconnect("c"))
    /\ WF_vars(CloseRelease("c"))
    /\ WF_vars(RlAckTail("c"))
    /\ WF_vars(RlFinTail("c"))
    /\ WF_vars(RlSocketClosed("c"))
    /\ WF_vars(TimerLoopHead("c"))
    /\ WF_vars(TimerScan("c"))
    /\ WF_vars(TimerResend("c"))
    /\ WF_vars(TimerEndCheck("c"))
    /\ WF_vars(TimerExit("c"))

\* The closing side sends single-byte segments.
InitClose == Established /\ recv_window["c"] = 1

SpecClose == InitClose /\ [][NextClose]_vars /\ FairClose

(***************************************************************************)
(* A whole connection: from the constructed sockets through connect() and  *)
(* accept(), the transfer, to close() on the "c" side.  send() and close() *)
(* may also be called on a socket that is not connected.                   *)
(***************************************************************************)
InitLife == InitHs /\ isn = [e \in E |-> InitialSeq(e)]

NextLife ==
    \/ ConnectCall("c")
    \/ ConnectSendSyn("c")
    \/ ConnectRecv("c")
    \/ attempts < MaxRetries /\ ConnectTimeout("c")
    \/ ConnectSendAck("c")
    \/ AcceptCall("s")
    \/ AcceptRecv("s")
    \/ AcceptListenTimeout("s")
    \/ AcceptRecvAck("s")
    \/ AcceptAckTimeout("s")
    \/ NextClose

SpecLife == InitLife /\ [][NextLife]_vars

(***************************************************************************)
(* Teardown seen from the applications: as SpecClose, and the application  *)
(* of either endpoint keeps calling recv().  The FIN of "c" and its        *)
(* retransmitted data are eventually returned by the recvfrom of "s" while *)
(* its receiver loop is waiting.                                           *)
(***************************************************************************)
NextRecvEnd ==
    \/ NextClose
    \/ \E e \in E : RecvCall(e)
    \/ \E e \in E : RecvLocked(e)
    \/ \E e \in E : RecvFlags(e)

FairRecvEnd ==
    /\ \A e \in E : WF_vars(RecvCall(e))
    /\ \A e \in E : WF_vars(RecvLocked(e))
    /\ \A e \in E : WF_vars(RecvFlags(e))
    /\ WF_vars(RlAckTail("s"))
    /\ WF_vars(RlFinTail("s"))
    /\ SF_vars(RlReceive("s"))

SpecRecvEnd == InitClose /\ [][NextRecvEnd]_vars /\ FairClose /\ FairRecvEnd

(***************************************************************************)
(* C1.  The bytes recv() has returned so far at one endpoint are a prefix  *)
(* of the bytes passed so far to send() at the other endpoint, in call     *)
(* order: no byte duplicated, skipped or reordered, whatever the channel   *)
(* drops, duplicates or reorders.                                          *)
(***************************************************************************)
C1_DeliveredIsPrefixOfSent ==
    \A e \in E : Prefix(delivered[e], sent[Peer(e)])

\* Everything sent has been returned by recv(), in more than one segment's worth.
C1_Witness ==
    /\ Len(sent["c"]) = MaxBytes
    /\ delivered["s"] = sent["c"]

(***************************************************************************)
(* C2.  With neither side calling close(), under fair scheduling and a     *)
(* fair-lossy channel, every byte passed to send() is eventually returned  *)
(* by the peer's recv(): once the i-th byte has been passed to send() on   *)
(* "c", recv() on "s" eventually has returned at least i bytes (which are  *)
(* the first i bytes sent, by C1).                                         *)
(***************************************************************************)
C2_EverySentByteIsDelivered ==
    \A i \in 1..MaxBytes :
       (Len(sent["c"]) >= i) ~> (Len(delivered["s"]) >= i)

(***************************************************************************)
(* C3.  Whenever connect() on "c" and accept() on "s" have both completed, *)
(* the ack of "c" is the initial sequence number of "s" plus 1, the ack of *)
(* "s" is the initial sequence number of "c" plus 1, and both endpoints    *)
(* have connected = TRUE.                                                  *)
(***************************************************************************)
C3_HandshakeCorrect ==
    (hs_pc["c"] = "done" /\ hs_pc["s"] = "done")
    => /\ ack["c"] = isn["s"] + 1
       /\ ack["s"] = isn["c"] + 1
       /\ connected["c"]
       /\ connected["s"]

\* Both calls have completed, after a SYN retransmission.
C3_Witness ==
    /\ hs_pc["c"] = "done"
    /\ hs_pc["s"] = "done"
    /\ syn_sent > 1

(***************************************************************************)
(* C4.  The payload bytes of the unacknowledged segments of an endpoint    *)
(* never exceed the receive window the peer advertises.  (recv_window      *)
(* never changes after construction, so every segment received from the    *)
(* peer, the latest one included, advertises recv_window[Peer(e)].)        *)
(***************************************************************************)
C4_InFlightWithinPeerWindow ==
    \A e \in E : BufferBytes(send_buffer[e]) <= recv_window[Peer(e)]

(***************************************************************************)
(* ACK processing on its own: the "c" side holds an arbitrary send buffer  *)
(* (any set of keys, any payload lengths, contiguous or not) and one ACK   *)
(* segment with an arbitrary acknowledgment number is in flight to it.     *)
(* The "s" side holds a copy of the same buffer and receives nothing.      *)
(***************************************************************************)
AckKeys == (InitialSeq("c") + 1)..(InitialSeq("c") + 1 + MaxBytes)
AckNums == InitialSeq("c")..(InitialSeq("c") + 2 + MaxBytes + MaxWindow)
AckPayload(k, n) == [i \in 1..n |-> k + i - InitialSeq("c") - 1]
AckEntry(k, n) ==
    [segment |-> PackSegment("c", "s", "PSH", k, InitialSeq("s") + 1, 1, AckPayload(k, n)),
     data |-> AckPayload(k, n)]

InitAck ==
    /\ isn = [e \in E |-> InitialSeq(e)]
    /\ recv_window = [e \in E |-> 1]
    /\ seq = [e \in E |-> InitialSeq(e) + 1]
    /\ ack = [e \in E |-> InitialSeq(Peer(e)) + 1]
    /\ \E K \in SUBSET AckKeys :
          \E len \in [K -> 1..MaxWindow] :
             send_buffer = [e \in E |-> [k \in K |-> AckEntry(k, len[k])]]
    /\ recv_buffer = [e \in E |-> <<>>]
    /\ running = [e \in E |-> TRUE]
    /\ connected = [e \in E |-> TRUE]
    /\ fin_sent = [e \in E |-> FALSE]
    /\ fin_acked = [e \in E |-> FALSE]
    /\ fin_received = [e \in E |-> FALSE]
    /\ timer_running \in [E -> BOOLEAN]
    /\ remote_addr = [e \in E |-> Peer(e)]
    /\ udp_open = [e \in E |-> TRUE]
    /\ udp_timeout = [e \in E |-> TRUE]
    /\ \E a \in AckNums :
          net = [e \in E |-> IF e = "c"
                             THEN {PackSegment("s", "c", "ACK", InitialSeq("s") + 1, a, 1, <<>>)}
                             ELSE {}]
    /\ timers = [e \in E |-> EmptyBag]
    /\ rl_pc = [e \in E |-> "recv"]
    /\ rl_addr = [e \in E |-> "none"]
    /\ hs_pc = [e \in E |-> "done"]
    /\ attempts = 0
    /\ syn_sent = 1
    /\ snd_pc = [e \in E |-> "idle"]
    /\ snd_data = [e \in E |-> <<>>]
    /\ rcv_pc = [e \in E |-> "idle"]
    /\ cls_pc = [e \in E |-> "idle"]
    /\ sent = [e \in E |-> <<>>]
    /\ delivered = [e \in E |-> <<>>]
    /\ junk = 0
    /\ RttInitial
    /\ NoArq
    /\ NoLocks
    /\ CodecIdle

NextAck ==
    \/ RlReceive("c")
    \/ RlAckTail("c")

SpecAck == InitAck /\ [][NextAck]_vars

(***************************************************************************)
(* C5.  Processing ACK(ack_num) removes exactly the send-buffer entries    *)
(* whose end offset (key + payload length) is <= ack_num, and leaves every *)
(* entry whose end offset is > ack_num, segment bytes and payload          *)
(* unchanged.                                                              *)
(***************************************************************************)
C5_CumulativeAckPruning ==
    [][\A e \in E :
          (rl_pc[e] = "recv" /\ rl_pc'[e] = "ack_tail")
          => \E m \in net[e] :
                /\ DecodeFlags(m.offset_flags) = "ACK"
                /\ DOMAIN send_buffer'[e] \subseteq DOMAIN send_buffer[e]
                /\ \A k \in DOMAIN send_buffer[e] :
                      IF k + Len(send_buffer[e][k].data) <= m.ack
                      THEN k \notin DOMAIN send_buffer'[e]
                      ELSE /\ k \in DOMAIN send_buffer'[e]
                           /\ send_buffer'[e][k] = send_buffer[e][k]]_vars

\* An ACK has been processed that removed some entries and left others.
C5_Witness ==
    /\ rl_pc["c"] = "ack_tail"
    /\ DOMAIN send_buffer["c"] # {}
    /\ DOMAIN send_buffer["c"] # DOMAIN send_buffer["s"]

(***************************************************************************)
(* C6.  close() on a connected socket terminates, whatever the peer does   *)
(* or fails to do; when it has returned, running and connected are false   *)
(* and the datagram socket is released, and the receiver loop exits.       *)
(***************************************************************************)
C6_CloseTerminates ==
    /\ [](\A e \in E : cls_pc[e] = "done" =>
                          ~running[e] /\ ~connected[e] /\ ~udp_open[e])
    /\ \A e \in E : (cls_pc[e] = "drain") ~> (cls_pc[e] = "done" /\ rl_pc[e] = "exited")

\* close() has returned although nothing from the peer ever reached this
\* side: no ACK of the outstanding data, no FIN, no ACK of the FIN.
C6_Witness ==
    /\ cls_pc["c"] = "done"
    /\ rl_pc["c"] = "exited"
    /\ net["c"] = {}
    /\ ~IsEmpty(send_buffer["c"])
    /\ fin_sent["c"] /\ ~fin_received["c"]

(***************************************************************************)
(* C7.  A send() call made while connected is false fails at once with the *)
(* not-connected error and has no effect: nothing is transmitted, and seq, *)
(* sendBuffer and the timer state are unchanged.                           *)
(***************************************************************************)
C7_SendNotConnectedHasNoEffect ==
    [][\A e \in E :
          (/\ snd_pc[e] \in {"idle", "raised"}
           /\ snd_pc'[e] # snd_pc[e]
           /\ ~connected[e])
          => /\ snd_pc'[e] = "raised"
             /\ UNCHANGED <<net, seq, send_buffer, snd_data, sent, timer_running, timers>>]_vars

\* send() has raised the not-connected error after close() returned.
C7_Witness ==
    /\ snd_pc["c"] = "raised"
    /\ cls_pc["c"] = "done"
    /\ ~connected["c"]

(***************************************************************************)
(* C8.  Once the connection of an endpoint has ended (its own close() has  *)
(* returned, or the peer's FIN has been received) and its receive buffer   *)
(* is empty, a recv() call in progress eventually returns: the empty       *)
(* result, or data that arrived in the meantime.                           *)
(***************************************************************************)
ConnectionEnded(e) == fin_received[e] \/ cls_pc[e] = "done"

C8_RecvReturnsAtConnectionEnd ==
    \A e \in E :
       (ConnectionEnded(e) /\ recv_buffer[e] = <<>> /\ rcv_pc[e] \in {"lock", "flags"})
       ~> (rcv_pc[e] \in {"ret_empty", "ret_data"})

(***************************************************************************)
(* C9.  A datagram shorter than 20 bytes does not end the receiver loop:   *)
(* the loop thread is never terminated by the exception _unpack_segment    *)
(* raises on it, so it goes on to process the segments that arrive later.  *)
(***************************************************************************)
C9_ShortDatagramKeepsLoopAlive ==
    \A e \in E : rl_pc[e] # "crashed"

(***************************************************************************)
(* C10.  connect() transmits at most 8 SYNs and ends either established or *)
(* with the connect-timeout error, whatever datagrams other than a SYN-ACK *)
(* arrive; after the failure connected and running are FALSE and no        *)
(* receiver loop has been started.                                         *)
(***************************************************************************)
C10_ConnectBounded ==
    /\ syn_sent <= MaxAttempts
    /\ hs_pc["c"] # "struct_error"
    /\ hs_pc["c"] = "timeout_error"
       => ~connected["c"] /\ ~running["c"] /\ rl_pc["c"] = "unstarted"

(***************************************************************************)
(* C11.  accept() returns only by completing a handshake: with no foreign  *)
(* datagram involved, it never ends with an error (not after the wait for  *)
(* the final ACK ran out either), and when it has returned connected is    *)
(* TRUE.                                                                   *)
(***************************************************************************)
C11_AcceptOnlyReturnsConnected ==
    junk = 0
    => /\ hs_pc["s"] \notin {"socket_timeout", "struct_error"}
       /\ hs_pc["s"] = "done" => connected["s"]

(***************************************************************************)
(* The codec on its own.  Either a _pack_segment call with arguments drawn *)
(* from sample sets is encoded and the result decoded, or a 20-byte header *)
(* with an arbitrary combination of the four flag bits, as any UDP sender  *)
(* can produce it, is decoded.  TLC's integers end at 2^31 - 1: the        *)
(* samples of the 32-bit fields stay below that.                           *)
(***************************************************************************)
FlagNames == {"SYN", "SYN-ACK", "ACK", "PSH", "FIN"}
SeqSamples == {0, 258, 16909060, 2147483647}
WindowSamples == {0, 1, 4096, 65535}
ByteSamples == {0, 255}
PayloadSamples == UNION {[1..n -> ByteSamples] : n \in 0..MaxBytes}
PackCalls ==
    [flags : FlagNames, seq : SeqSamples, ack : SeqSamples, window : WindowSamples,
     data : PayloadSamples]
FlagCombos ==
    {f * FIN_BIT + y * SYN_BIT + p * PSH_BIT + a * ACK_BIT :
        f \in {0, 1}, y \in {0, 1}, p \in {0, 1}, a \in {0, 1}}
RawHeader(bits, sq) ==
    HeaderBytes([src |-> "x", dst |-> "c", hlen |-> HeaderLen, seq |-> sq, ack |-> 0,
                 offset_flags |-> BitOr(ShiftLeft(DataOffsetWords, OffsetShift), bits),
                 window |-> 1, data |-> <<>>])

InitCodec ==
    /\ isn = [e \in E |-> InitialSeq(e)]
    /\ recv_window = [e \in E |-> 1]
    /\ seq = isn
    /\ ack = [e \in E |-> 0]
    /\ send_buffer = [e \in E |-> EmptyBuffer]
    /\ recv_buffer = [e \in E |-> <<>>]
    /\ running = [e \in E |-> FALSE]
    /\ connected = [e \in E |-> FALSE]
    /\ fin_sent = [e \in E |-> FALSE]
    /\ fin_acked = [e \in E |-> FALSE]
    /\ fin_received = [e \in E |-> FALSE]
    /\ timer_running = [e \in E |-> FALSE]
    /\ remote_addr = [e \in E |-> Peer(e)]
    /\ udp_open = [e \in E |-> TRUE]
    /\ udp_timeout = [e \in E |-> FALSE]
    /\ net = [e \in E |-> {}]
    /\ timers = [e \in E |-> EmptyBag]
    /\ rl_pc = [e \in E |-> "unstarted"]
    /\ rl_addr = [e \in E |-> "none"]
    /\ hs_pc = [e \in E |-> "idle"]
    /\ attempts = 0
    /\ syn_sent = 0
    /\ snd_pc = [e \in E |-> "idle"]
    /\ snd_data = [e \in E |-> <<>>]
    /\ rcv_pc = [e \in E |-> "idle"]
    /\ cls_pc = [e \in E |-> "idle"]
    /\ sent = [e \in E |-> <<>>]
    /\ delivered = [e \in E |-> <<>>]
    /\ junk = 0
    /\ RttInitial
    /\ NoArq
    /\ NoLocks
    /\ codec_out = NoOutput
    /\ \/ codec_in \in PackCalls /\ wire = <<>>
       \/ /\ codec_in = NoCall
          /\ \E bits \in FlagCombos : \E sq \in SeqSamples : wire = RawHeader(bits, sq)

NextCodec ==
    \/ CodecPack
    \/ CodecUnpack

SpecCodec == InitCodec /\ [][NextCodec]_vars

(***************************************************************************)
(* C12.  Decoding follows the priority SYN-ACK > SYN > ACK > FIN > PSH:    *)
(* for every combination of the four flag bits in the header, the decoded  *)
(* flag is SYN-ACK if the SYN and ACK bits are both set, else SYN if the   *)
(* SYN bit is set, else ACK, else FIN, else PSH, and the empty flag if no  *)
(* bit is set.                                                             *)
(***************************************************************************)
WireHasBit(weight) == (wire[14] \div weight) % 2 = 1

C12_FlagDecodePriority ==
    codec_out # NoOutput
    => codec_out.flags =
          IF WireHasBit(2) /\ WireHasBit(16) THEN "SYN-ACK"
          ELSE IF WireHasBit(2) THEN "SYN"
          ELSE IF WireHasBit(16) THEN "ACK"
          ELSE IF WireHasBit(1) THEN "FIN"
          ELSE IF WireHasBit(8) THEN "PSH"
          ELSE ""

\* A header with all four bits set has been decoded.
C12_Witness ==
    /\ codec_in = NoCall
    /\ codec_out # NoOutput
    /\ wire[14] = 27
    /\ codec_out.flags = "SYN-ACK"

(***************************************************************************)
(* C13.  Round trip: for each of the five flags and every sampled seq,     *)
(* ack, window and payload, the encoding is 20 header bytes followed by    *)
(* the payload, and decoding it returns the same flag, seq, ack, window    *)
(* and payload.                                                            *)
(***************************************************************************)
C13_CodecRoundTrip ==
    /\ (codec_in # NoCall /\ wire # <<>>)
       => /\ Len(wire) = 20 + Len(codec_in.data)
          /\ SubSeq(wire, 21, Len(wire)) = codec_in.data
    /\ (codec_in # NoCall /\ codec_out # NoOutput)
       => /\ codec_out.flags = codec_in.flags
          /\ codec_out.seq = codec_in.seq
          /\ codec_out.ack = codec_in.ack
          /\ codec_out.window = codec_in.window
          /\ codec_out.data = codec_in.data

\* A data segment with the largest sampled fields has made the round trip.
C13_Witness ==
    /\ codec_in # NoCall
    /\ codec_out # NoOutput
    /\ codec_in.flags = "PSH"
    /\ codec_in.seq = 2147483647
    /\ codec_in.window = 65535
    /\ Len(codec_in.data) = MaxBytes

(***************************************************************************)
(* C14.  ack only increases: once it has been set (it is 0 until then), no *)
(* step of accept(), connect() or the receiver loop lowers it, whatever    *)
(* segments arrive, repeated or competing SYNs included.                   *)
(***************************************************************************)
C14_AckOnlyIncreases ==
    [][\A e \in E : ack[e] # 0 => ack'[e] >= ack[e]]_vars

(***************************************************************************)
(* C15.  seq only increases: no step lowers it; it changes only when the   *)
(* handshake completes, by 1, and when send() records a segment, by that   *)
(* segment's payload length; retransmission, ACK processing, FIN handling  *)
(* and close() leave it as it is.                                          *)
(***************************************************************************)
Recorded(e) == DOMAIN send_buffer'[e] \ DOMAIN send_buffer[e]
Establishes(e) == hs_pc[e] # "done" /\ hs_pc'[e] = "done"

C15_SeqOnlyIncreases ==
    [][\A e \in E :
          /\ seq'[e] >= seq[e]
          /\ Establishes(e) => seq'[e] = seq[e] + 1
          /\ \A k \in Recorded(e) : seq'[e] = seq[e] + Len(send_buffer'[e][k].data)
          /\ seq'[e] # seq[e] => Establishes(e) \/ Recorded(e) # {}]_vars

\* connect() has completed, a segment has been sent and acknowledged, the
\* peer's FIN has been handled and close() has returned.
C15_Witness ==
    /\ hs_pc["c"] = "done"
    /\ seq["c"] = isn["c"] + 1 + CloseBytes
    /\ IsEmpty(send_buffer["c"])
    /\ fin_received["c"]
    /\ cls_pc["c"] = "done"

(***************************************************************************)
(* C16.  The send buffer is a contiguous range of the byte stream: taking  *)
(* its entries in increasing key order, each entry's key plus its payload  *)
(* length is the next entry's key, and the last entry's key plus its       *)
(* payload length is seq.                                                  *)
(***************************************************************************)
EndOf(e, k) == k + Len(send_buffer[e][k].data)

C16_SendBufferContiguous ==
    \A e \in E :
       \A k \in DOMAIN send_buffer[e] :
          \/ EndOf(e, k) = seq[e] /\ \A j \in DOMAIN send_buffer[e] : j <= k
          \/ /\ EndOf(e, k) \in DOMAIN send_buffer[e]
             /\ \A j \in DOMAIN send_buffer[e] : j <= k \/ j >= EndOf(e, k)

\* The first segment has been acknowledged and more than one is left.
C16_Witness ==
    /\ Cardinality(DOMAIN send_buffer["c"]) = MaxBytes - 1
    /\ Cardinality(DOMAIN send_buffer["c"]) >= 1
    /\ InitialSeq("c") + 1 \notin DOMAIN send_buffer["c"]
    /\ Len(sent["c"]) = MaxBytes

(***************************************************************************)
(* C17.  No data segment is put on the wire while connected is FALSE:      *)
(* every step that transmits a PSH segment on an open socket, the first    *)
(* transmission by send() or a retransmission by the timer, is taken with  *)
(* connected TRUE.                                                         *)
(***************************************************************************)
C17_NoDataWhileNotConnected ==
    [][\A e \in E :
          ((SendChunk(e) \/ TimerResend(e)) /\ udp_open[e]) => connected[e]]_vars

(***************************************************************************)
(* The RTT estimator alone: a constructed socket whose _update_rtt is fed  *)
(* samples (a zero sample stands for the non-positive ones) and whose      *)
(* _handle_ack recomputes the timeout while data is outstanding.           *)
(***************************************************************************)
RttSamples == {0, Ms(20), Ms(100), Ms(300), Ms(2000)}

NextRtt ==
    \/ \E sample \in RttSamples : UpdateRtt(sample)
    \/ AckRecompute

SpecRtt == InitLife /\ [][NextRtt]_vars

\* The step is a call of _update_rtt with a positive sample.
Sampled == Len(rtt_samples') = Len(rtt_samples) + 1
LastSample == rtt_samples'[Len(rtt_samples')]
AllEqual(samples) == \A i, j \in DOMAIN samples : samples[i] = samples[j]

(***************************************************************************)
(* C18.  RTT convergence: while every sample fed so far is the same        *)
(* positive constant c, estimated_rtt is c after each sample and each      *)
(* sample after the first multiplies dev_rtt by 3/4.                       *)
(***************************************************************************)
C18_ConstantSamplesConverge ==
    [][(Sampled /\ AllEqual(rtt_samples')) =>
          /\ estimated_rtt' = LastSample
          /\ rtt_samples # <<>> => 4 * dev_rtt' = 3 * dev_rtt]_vars

(***************************************************************************)
(* C19.  timeout_interval is always within [0.1 s, 3 s]; it is the         *)
(* constructor's 1.0 s while the estimator is as constructed, and it is    *)
(* estimated_rtt + 4 * dev_rtt clamped to that range once a positive       *)
(* sample or an ACK recomputation has set it.                              *)
(***************************************************************************)
C19_TimeoutWithinRange ==
    /\ MinTimeout <= timeout_interval
    /\ timeout_interval <= MaxTimeout
    /\ \/ timeout_interval = Clamp(estimated_rtt + 4 * dev_rtt)
       \/ RttInitial

\* The statement as given: the equality holds in every state, the
\* constructed one included.
C19_TimeoutIsClampedEstimate ==
    /\ MinTimeout <= timeout_interval
    /\ timeout_interval <= MaxTimeout
    /\ timeout_interval = Clamp(estimated_rtt + 4 * dev_rtt)

\* Samples have been taken and the upper clamp has cut the timeout.
C19_Witness ==
    /\ rtt_samples # <<>>
    /\ estimated_rtt + 4 * dev_rtt > MaxTimeout
    /\ timeout_interval = MaxTimeout

(***************************************************************************)
(* C20.  The first positive sample, and only the first, seeds the          *)
(* estimator; every later one goes through the weighted update.            *)
(***************************************************************************)
C20_OnlyFirstSampleSeeds ==
    [][Sampled =>
          LET new == IF rtt_samples = <<>>
                     THEN Seeded(LastSample)
                     ELSE Weighted(estimated_rtt, dev_rtt, LastSample)
          IN  estimated_rtt' = new.est /\ dev_rtt' = new.dev]_vars

(***************************************************************************)
(* The unreliable channel of fase1 and fase2 (UnreliableChannel.send): a   *)
(* datagram handed to it is lost or is delivered after a delay of its own. *)
(* A channel is the set of datagrams in flight; a datagram leaves it when  *)
(* it is delivered or lost.  Corruption is switched off (corrupt_rate 0).  *)
(***************************************************************************)
make_packet(pkt_type, seqnum, payload) ==
    [type |-> pkt_type, seq |-> seqnum, payload |-> payload]

ChannelSend(ch, pkt) == ch \cup {pkt}
ChannelTake(ch, pkt) == ch \ {pkt}

(***************************************************************************)
(* Selective Repeat (fase2/sr.py).  sr is a record: the sender's fields    *)
(* (next_seq_num, buffer, acks), the thread in send() (pc, chunks, sent:   *)
(* the number of chunks of the list already transmitted), the receiver's   *)
(* fields (expected_seq, rcv_buffer, delivered_data) and the two           *)
(* directions of the channel (to_rcv, to_snd).  The timestamps in timers   *)
(* are abstracted: a packet in the buffer may time out at any moment.      *)
(***************************************************************************)
seq_in_range(sq, start, end) ==
    IF start <= end
    THEN start <= sq /\ sq < end
    ELSE sq >= start \/ sq < end

NoPackets == [k \in {} |-> 0]
Without(f, k) == [j \in DOMAIN f \ {k} |-> f[j]]
With(f, k, v) == [j \in DOMAIN f \cup {k} |-> IF j = k THEN v ELSE f[j]]

SrChunks == [i \in 1..MaxSrChunks |-> i]

SrConstructed(w) ==
    [pc |-> "idle", window_size |-> w, chunks |-> SrChunks, sent |-> 0,
     next_seq_num |-> 0, buffer |-> NoPackets, acks |-> NoPackets,
     expected_seq |-> 0, rcv_buffer |-> NoPackets, delivered_data |-> <<>>,
     to_rcv |-> {}, to_snd |-> {}]

SrFrame == UNCHANGED <<isn, recv_window, rttVars, codecVars, gbn, rdt, lk, tcpVars, lifeVars,
                       flagVars, udpVars, timerVars, net, rlVars, hsVars, sndVars,
                       rcv_pc, cls_pc, histVars, junk>>

\* sender.send(data_chunks)
SrSendCall ==
    /\ sr.pc = "idle"
    /\ sr' = [sr EXCEPT !.pc = "send"]
    /\ SrFrame

\* if len(self.buffer) < self.window_size: the sender may transmit
WindowOpen == Cardinality(DOMAIN sr.buffer) < sr.window_size

\* One pass of `while not sent` that finds room: the locked block of send().
SrSendChunk ==
    /\ sr.pc = "send"
    /\ WindowOpen
    /\ LET sq == sr.next_seq_num % SeqSpace
           pkt == make_packet(TYPE_DATA, sq, sr.chunks[sr.sent + 1])
       IN  sr' = [sr EXCEPT !.to_rcv = ChannelSend(@, pkt),
                            !.buffer = With(@, sq, pkt),
                            !.acks = With(@, sq, FALSE),
                            !.next_seq_num = @ + 1,
                            !.sent = @ + 1,
                            !.pc = IF sr.sent + 1 = Len(sr.chunks) THEN "wait" ELSE "send"]
    /\ SrFrame

\* _check_timeouts, called from both loops of send(): a packet still in the
\* buffer whose timeout has passed is transmitted again.
SrCheckTimeouts ==
    /\ sr.pc \in {"send", "wait"}
    /\ \E sq \in DOMAIN sr.buffer :
          /\ ~sr.acks[sq]
          /\ sr.buffer[sq] \notin sr.to_rcv
          /\ sr' = [sr EXCEPT !.to_rcv = ChannelSend(@, sr.buffer[sq])]
    /\ SrFrame

\* The final loop of send(): if not self.buffer: break
SrSendReturn ==
    /\ sr.pc = "wait"
    /\ DOMAIN sr.buffer = {}
    /\ sr' = [sr EXCEPT !.pc = "returned"]
    /\ SrFrame

\* _receive_acks: one datagram
SrReceiveAck ==
    /\ \E pkt \in sr.to_snd :
          LET ack_seq == pkt.seq
          IN  sr' = IF pkt.type = TYPE_ACK /\ ack_seq \in DOMAIN sr.buffer
                    THEN [sr EXCEPT !.to_snd = ChannelTake(@, pkt),
                                    !.acks = With(@, ack_seq, TRUE),
                                    !.buffer = Without(@, ack_seq)]
                    ELSE [sr EXCEPT !.to_snd = ChannelTake(@, pkt)]
    /\ SrFrame

\* while self.expected_seq % 256 in self.buffer: deliver, delete, advance
RECURSIVE SrDeliver(_)
SrDeliver(r) ==
    LET seq_mod == r.expected_seq % SeqSpace
    IN  IF seq_mod \in DOMAIN r.rcv_buffer
        THEN SrDeliver([r EXCEPT !.delivered_data = Append(@, r.rcv_buffer[seq_mod]),
                                 !.rcv_buffer = Without(@, seq_mod),
                                 !.expected_seq = @ + 1])
        ELSE r

\* SR_Receiver.receive: one datagram
SrReceive ==
    /\ \E pkt \in sr.to_rcv :
          LET acked == [sr EXCEPT !.to_rcv = ChannelTake(@, pkt),
                                  !.to_snd = ChannelSend(@, make_packet(TYPE_ACK, pkt.seq, <<>>))]
          IN  sr' = IF pkt.type # TYPE_DATA
                    THEN [sr EXCEPT !.to_rcv = ChannelTake(@, pkt)]
                    ELSE IF seq_in_range(pkt.seq, sr.expected_seq % SeqSpace,
                                         (sr.expected_seq + sr.window_size) % SeqSpace)
                         THEN SrDeliver([acked EXCEPT !.rcv_buffer = With(@, pkt.seq, pkt.payload)])
                         ELSE acked
    /\ SrFrame

\* UnreliableChannel.send loses the datagram.
SrLose ==
    /\ \/ \E pkt \in sr.to_rcv : sr' = [sr EXCEPT !.to_rcv = ChannelTake(@, pkt)]
       \/ \E pkt \in sr.to_snd : sr' = [sr EXCEPT !.to_snd = ChannelTake(@, pkt)]
    /\ SrFrame

InitSr ==
    /\ Constructed
    /\ isn = [e \in E |-> InitialSeq(e)]
    /\ \E w \in 1..MaxSrWindow : sr = SrConstructed(w)
    /\ gbn = Absent
    /\ rdt = Absent
    /\ NoLocks

NextSr ==
    \/ SrSendCall
    \/ SrSendChunk
    \/ SrCheckTimeouts
    \/ SrSendReturn
    \/ SrReceiveAck
    \/ SrReceive
    \/ SrLose

SpecSr == InitSr /\ [][NextSr]_vars

(***************************************************************************)
(* C21.  Selective Repeat: what the receiver has delivered is always a     *)
(* prefix of the chunks passed to send(), and when send() has returned     *)
(* every chunk has been delivered.                                         *)
(***************************************************************************)
C21_SrDeliversEveryChunk ==
    /\ Prefix(sr.delivered_data, sr.chunks)
    /\ sr.pc = "returned" => sr.delivered_data = sr.chunks

(***************************************************************************)
(* Go-Back-N (fase2/gbn.py).  gbn is a record: the sender's fields (N,     *)
(* base, nextseq, buffer, timer), the number of _on_timeout callbacks that *)
(* have fired and wait for the lock (pending), the receiver's field        *)
(* expected, the payloads handed to deliver_callback (delivered) and the   *)
(* channel (to_rcv, to_snd).  The application calls send() once per        *)
(* payload; the k-th call passes the payload k, so the payloads passed so  *)
(* far are 1..nextseq.  self.timer is "none" (None), "armed" (a Timer that *)
(* has not expired) or "fired" (a Timer object that has).                  *)
(***************************************************************************)
GbnConstructed(n) ==
    [N |-> n, base |-> 0, nextseq |-> 0, buffer |-> NoPackets, timer |-> "none",
     pending |-> 0, timeouts |-> 0, expected |-> 0, delivered |-> <<>>,
     to_rcv |-> {}, to_snd |-> {}]

GbnFrame == UNCHANGED <<isn, recv_window, rttVars, codecVars, sr, rdt, lk, tcpVars, lifeVars,
                        flagVars, udpVars, timerVars, net, rlVars, hsVars, sndVars,
                        rcv_pc, cls_pc, histVars, junk>>

\* channel.send(pkt, sock, dest): the outcomes, lost or in flight
Offer(ch, pkts, room) ==
    {ch \cup got : got \in {g \in SUBSET pkts : Cardinality(ch \cup g) <= room}}

GbnPassed == [i \in 1..gbn.nextseq |-> i]

\* send(data), from the end of the wait for the window to the end of the
\* locked block.
GbnSend ==
    /\ gbn.nextseq < MaxGbnSends
    /\ gbn.nextseq < gbn.base + gbn.N
    /\ LET seq_abs == gbn.nextseq
           pkt == make_packet(TYPE_DATA, seq_abs % SeqSpace, seq_abs + 1)
       IN  \E ch \in Offer(gbn.to_rcv, {pkt}, MaxGbnDataInFlight) :
              gbn' = [gbn EXCEPT !.buffer = With(@, seq_abs, pkt),
                                 !.to_rcv = ch,
                                 !.timer = IF gbn.base = gbn.nextseq THEN "armed" ELSE @,
                                 !.nextseq = @ + 1]
    /\ GbnFrame

\* The threading.Timer expires: its thread calls _on_timeout, which waits
\* for the lock.
GbnTimerExpires ==
    /\ gbn.timer = "armed"
    /\ gbn.timeouts < MaxGbnTimeouts
    /\ gbn' = [gbn EXCEPT !.timer = "fired", !.pending = @ + 1, !.timeouts = @ + 1]
    /\ GbnFrame

\* _on_timeout: retransmit buffer[base..nextseq-1], restart the timer
GbnOnTimeout ==
    /\ gbn.pending > 0
    /\ LET window == {gbn.buffer[sq] :
                          sq \in (gbn.base..(gbn.nextseq - 1)) \cap DOMAIN gbn.buffer}
       IN  \E ch \in Offer(gbn.to_rcv, window, MaxGbnDataInFlight) :
              gbn' = [gbn EXCEPT !.to_rcv = ch, !.timer = "armed", !.pending = @ - 1]
    /\ GbnFrame

\* The largest seq in range(base, nextseq) with seq % 256 == ack_mod, or -1
MappedBlind(ack_mod) == ack_mod
Mapped(ack_mod) ==
    LET match == {sq \in gbn.base..(gbn.nextseq - 1) : sq % SeqSpace = ack_mod}
    IN  IF match = {} THEN -1 ELSE CHOOSE sq \in match : \A o \in match : o <= sq

\* GBNSender._recv_loop: one datagram
GbnReceiveAck ==
    /\ \E pkt \in gbn.to_snd :
          LET mapped == Mapped(pkt.seq)
              new_base == mapped + 1
          IN  gbn' = IF pkt.type # TYPE_ACK \/ mapped = -1
                     THEN [gbn EXCEPT !.to_snd = ChannelTake(@, pkt)]
                     ELSE [gbn EXCEPT !.to_snd = ChannelTake(@, pkt),
                                      !.base = new_base,
                                      !.buffer = [sq \in {b \in DOMAIN @ : b >= new_base} |-> @[sq]],
                                      !.timer = IF new_base = gbn.nextseq THEN "none" ELSE "armed"]
    /\ GbnFrame

\* recv_seq_field == (self.expected % 256)
Expected(seq_field) == seq_field = gbn.expected % SeqSpace

\* GBNReceiver._recv_loop: one datagram
GbnReceive ==
    /\ \E pkt \in gbn.to_rcv :
          IF pkt.type # TYPE_DATA
          THEN gbn' = [gbn EXCEPT !.to_rcv = ChannelTake(@, pkt)]
          ELSE IF Expected(pkt.seq)
               THEN \E ch \in Offer(gbn.to_snd, {make_packet(TYPE_ACK, pkt.seq, <<>>)}, MaxGbnAckInFlight) :
                       gbn' = [gbn EXCEPT !.to_rcv = ChannelTake(@, pkt),
                                          !.delivered = Append(@, pkt.payload),
                                          !.to_snd = ch,
                                          !.expected = @ + 1]
               ELSE \E ch \in Offer(gbn.to_snd, {make_packet(TYPE_ACK,
                                                   (gbn.expected - 1) % SeqSpace, <<>>)},
                                    MaxGbnAckInFlight) :
                       gbn' = [gbn EXCEPT !.to_rcv = ChannelTake(@, pkt), !.to_snd = ch]
    /\ GbnFrame

InitGbn ==
    /\ Constructed
    /\ isn = [e \in E |-> InitialSeq(e)]
    /\ sr = Absent
    /\ \E n \in 1..MaxGbnWindow : gbn = GbnConstructed(n)
    /\ rdt = Absent
    /\ NoLocks

NextGbn ==
    \/ GbnSend
    \/ GbnTimerExpires
    \/ GbnOnTimeout
    \/ GbnReceiveAck
    \/ GbnReceive

SpecGbn == InitGbn /\ [][NextGbn]_vars

(***************************************************************************)
(* C22.  Go-Back-N: the payloads handed to deliver_callback are always a   *)
(* prefix of the payloads passed to send(), in call order.                 *)
(***************************************************************************)
C22_GbnDeliversPrefix == Prefix(gbn.delivered, GbnPassed)

(***************************************************************************)
(* rdt3.0 stop-and-wait (fase1/rdt30.py).  rdt is a record: the sender's   *)
(* fields (seq, last_packet, timer, and waiting_for_ack, the flag of the   *)
(* Event), the thread in send() (pc: "idle" outside send(), "wait" blocked *)
(* in waiting_for_ack.wait, "got" when wait has returned True, "resend"    *)
(* when it has returned False), the number of send() calls made (msgs; the *)
(* k-th call passes the message k), the receiver's field expected, the     *)
(* messages handed to deliver_callback (delivered) and the channel.        *)
(***************************************************************************)
RdtConstructed ==
    [pc |-> "idle", seq |-> 0, last_packet |-> "none", timer |-> "none",
     waiting_for_ack |-> FALSE, msgs |-> 0, timeouts |-> 0,
     expected |-> 0, delivered |-> <<>>, to_rcv |-> {}, to_snd |-> {}]

RdtFrame == UNCHANGED <<isn, recv_window, rttVars, codecVars, sr, gbn, lk, tcpVars, lifeVars,
                        flagVars, udpVars, timerVars, net, rlVars, hsVars, sndVars,
                        rcv_pc, cls_pc, histVars, junk>>

\* send(data), the locked block: build and transmit the packet, start the
\* timer, clear the event; then the thread blocks in wait.
RdtSend ==
    /\ rdt.pc = "idle"
    /\ rdt.msgs < MaxRdtMsgs
    /\ LET pkt == make_packet(TYPE_DATA, rdt.seq, rdt.msgs + 1)
       IN  \E ch \in Offer(rdt.to_rcv, {pkt}, MaxRdtInFlight) :
              rdt' = [rdt EXCEPT !.last_packet = pkt,
                                 !.to_rcv = ch,
                                 !.timer = "armed",
                                 !.waiting_for_ack = FALSE,
                                 !.msgs = @ + 1,
                                 !.pc = "wait"]
    /\ RdtFrame

\* got_ack = self.waiting_for_ack.wait(timeout=self.timeout) returns False
RdtWaitTimesOut ==
    /\ rdt.pc = "wait"
    /\ rdt.timeouts < MaxRdtTimeouts
    /\ rdt' = [rdt EXCEPT !.pc = "resend", !.timeouts = @ + 1]
    /\ RdtFrame

\* The else branch: retransmit last_packet, restart the timer, wait again
\* (wait returns at once if the event has been set meanwhile).
RdtResend ==
    /\ rdt.pc = "resend"
    /\ \E ch \in Offer(rdt.to_rcv, {rdt.last_packet}, MaxRdtInFlight) :
          rdt' = [rdt EXCEPT !.to_rcv = ch,
                             !.timer = "armed",
                             !.pc = IF rdt.waiting_for_ack THEN "got" ELSE "wait"]
    /\ RdtFrame

\* if got_ack: self._stop_timer(); self.seq = 1 - self.seq; return
RdtReturn ==
    /\ rdt.pc = "got"
    /\ rdt' = [rdt EXCEPT !.timer = "none", !.seq = 1 - @, !.pc = "idle"]
    /\ RdtFrame

\* The threading.Timer expires: _on_timeout clears the event.
RdtOnTimeout ==
    /\ rdt.timer = "armed"
    /\ rdt' = [rdt EXCEPT !.timer = "fired", !.waiting_for_ack = FALSE]
    /\ RdtFrame

\* info['type'] == TYPE_ACK and not info['corrupt'] and info['seq'] == self.seq
AcceptsAck(pkt) == pkt.type = TYPE_ACK /\ pkt.seq = rdt.seq

\* RDT30Sender._recv_loop: one datagram.  Setting the event wakes the
\* thread blocked in wait.
RdtReceiveAck ==
    /\ \E pkt \in rdt.to_snd :
          rdt' = IF AcceptsAck(pkt)
                 THEN [rdt EXCEPT !.to_snd = ChannelTake(@, pkt),
                                  !.timer = "none",
                                  !.waiting_for_ack = TRUE,
                                  !.pc = IF @ = "wait" THEN "got" ELSE @]
                 ELSE [rdt EXCEPT !.to_snd = ChannelTake(@, pkt)]
    /\ RdtFrame

\* RDT21Receiver._recv_loop: one datagram
RdtReceive ==
    /\ \E pkt \in rdt.to_rcv :
          IF pkt.type # TYPE_DATA
          THEN rdt' = [rdt EXCEPT !.to_rcv = ChannelTake(@, pkt)]
          ELSE IF pkt.seq = rdt.expected
               THEN \E ch \in Offer(rdt.to_snd, {make_packet(TYPE_ACK, rdt.expected, <<>>)},
                                    MaxRdtInFlight) :
                       rdt' = [rdt EXCEPT !.to_rcv = ChannelTake(@, pkt),
                                          !.delivered = Append(@, pkt.payload),
                                          !.to_snd = ch,
                                          !.expected = 1 - @]
               ELSE \E ch \in Offer(rdt.to_snd, {make_packet(TYPE_ACK, 1 - rdt.expected, <<>>)},
                                    MaxRdtInFlight) :
                       rdt' = [rdt EXCEPT !.to_rcv = ChannelTake(@, pkt), !.to_snd = ch]
    /\ RdtFrame

InitRdt ==
    /\ Constructed
    /\ isn = [e \in E |-> InitialSeq(e)]
    /\ sr = Absent
    /\ gbn = Absent
    /\ rdt = RdtConstructed
    /\ NoLocks

NextRdt ==
    \/ RdtSend
    \/ RdtWaitTimesOut
    \/ RdtResend
    \/ RdtReturn
    \/ RdtOnTimeout
    \/ RdtReceiveAck
    \/ RdtReceive

SpecRdt == InitRdt /\ [][NextRdt]_vars

(***************************************************************************)
(* C23.  rdt3.0: the receiver delivers the messages passed to send()       *)
(* exactly once and in order, and a send() call has returned only if its   *)
(* message has been delivered.                                             *)
(***************************************************************************)
C23_RdtDeliversExactlyOnce ==
    /\ Prefix(rdt.delivered, [i \in 1..rdt.msgs |-> i])
    /\ rdt.pc = "idle" => Len(rdt.delivered) = rdt.msgs

(***************************************************************************)
(* Claims about the retransmission timer and the receiver loop of the      *)
(* TCP-like socket.                                                        *)
(***************************************************************************)
\* The timer_loop threads of e that have not yet ended.
ActiveTimers(e) == BagCardinality(timers[e])

(***************************************************************************)
(* C24.  At most one retransmission timer thread is active for a           *)
(* connection in every reachable state, whatever the interleaving of       *)
(* send(), the processing of an ACK that empties send_buffer and the       *)
(* timer thread itself.                                                    *)
(***************************************************************************)
C24_SingleTimerTask ==
    \A e \in E : ActiveTimers(e) <= 1

\* send() and the receiver loop of e are between steps: neither is about to
\* call _start_timer.
TimerSettled(e) == snd_pc[e] = "idle" /\ rl_pc[e] = "recv"

(***************************************************************************)
(* C25.  While the connection is running and connected, whenever           *)
(* send_buffer is non-empty and neither send() nor the processing of an    *)
(* ACK is in the middle of its step, a retransmission timer thread exists  *)
(* that will look at the buffer again: one that has not decided to end.    *)
(***************************************************************************)
C25_NoLostTimer ==
    \A e \in E :
       (running[e] /\ connected[e] /\ ~IsEmpty(send_buffer[e]) /\ TimerSettled(e))
       => \E t \in TimerThreads(e) : t.pc # "exit"

(***************************************************************************)
(* C26.  Whenever a timer thread transmits a segment, that segment is      *)
(* still an entry of send_buffer and its key is the lowest key of          *)
(* send_buffer: a segment already acknowledged and removed is never        *)
(* retransmitted.                                                          *)
(***************************************************************************)
C26_RetransmitsOnlyOldestBuffered ==
    [][\A e \in E : \A t \in TimerThreads(e) :
          (t.pc = "resend" /\ timers'[e] = Replace(timers[e], t, TimerAt("endchk"))
                           /\ net' = SendTo(net, e, remote_addr[e], t.seg))
          => /\ t.seq \in DOMAIN send_buffer[e]
             /\ t.seq = Min(DOMAIN send_buffer[e])]_vars

(***************************************************************************)
(* C27.  The receiver loop of an established connection ends only when     *)
(* running has been cleared or the socket has been closed: while running   *)
(* is TRUE and the socket is open the loop thread is alive, however long   *)
(* no datagram arrives.                                                    *)
(***************************************************************************)
C27_LoopRunsForConnectionLifetime ==
    \A e \in E : (running[e] /\ udp_open[e]) => rl_pc[e] # "exited"

(***************************************************************************)
(* Data transfer on an established connection whose sockets never report a *)
(* read timeout: send() on "c", recv() on "s", both receiver loops and the *)
(* timer threads of "c".                                                   *)
(***************************************************************************)
NextPsh ==
    \/ SendCall("c")
    \/ SendChunk("c")
    \/ SendArm("c")
    \/ RecvCall("s")
    \/ RecvLocked("s")
    \/ RecvFlags("s")
    \/ \E e \in E : RlReceive(e)
    \/ \E e \in E : RlAckTail(e)
    \/ TimerLoopHead("c")
    \/ TimerScan("c")
    \/ TimerResend("c")
    \/ TimerEndCheck("c")
    \/ TimerExit("c")

SpecPsh == InitXfer /\ [][NextPsh]_vars

(***************************************************************************)
(* The same connection when the application at "s" never calls recv():     *)
(* everything received stays in recv_buffer.                               *)
(***************************************************************************)
NextUnread ==
    \/ SendCall("c")
    \/ SendChunk("c")
    \/ SendArm("c")
    \/ \E e \in E : RlReceive(e)
    \/ \E e \in E : RlAckTail(e)
    \/ TimerLoopHead("c")
    \/ TimerScan("c")
    \/ TimerResend("c")
    \/ TimerEndCheck("c")
    \/ TimerExit("c")

SpecUnread == InitXfer /\ [][NextUnread]_vars

\* The bytes ever appended to recv_buffer of e: those recv() has returned
\* and those still in the buffer.
Appended(e) == Len(delivered[e]) + Len(recv_buffer[e])

\* A PSH segment among the datagrams e can receive.
IsPsh(m) == ~UnpackRaises(m) /\ UnpackSegment(m).flags = "PSH"

(***************************************************************************)
(* C28.  On an established connection ack is always the peer's initial     *)
(* sequence number plus 1 plus the number of payload bytes ever appended   *)
(* to recv_buffer; ack changes only when a PSH segment whose seq equals    *)
(* ack is processed, which appends the whole payload and advances ack by   *)
(* the payload length.                                                     *)
(***************************************************************************)
C28_AckCountsAppendedBytes ==
    /\ [](\A e \in E : ack[e] = isn[Peer(e)] + 1 + Appended(e))
    /\ [][\A e \in E :
             ack'[e] # ack[e]
             => \E m \in net[e] :
                   /\ IsPsh(m)
                   /\ m.seq = ack[e]
                   /\ recv_buffer'[e] = recv_buffer[e] \o m.data
                   /\ ack'[e] = ack[e] + Len(m.data)]_vars

\* A two-byte payload and then nothing more, or two one-byte payloads, have
\* been appended at "s" and part of them returned by recv().
C28_Witness ==
    /\ Appended("s") = MaxBytes
    /\ ack["s"] = isn["c"] + 1 + MaxBytes
    /\ Len(delivered["s"]) = 1

(***************************************************************************)
(* C29.  Processing a PSH segment whose seq differs from ack (a duplicate  *)
(* or an out-of-order segment) leaves recv_buffer and ack unchanged, and   *)
(* an ACK segment carrying the unchanged ack is sent to its source.        *)
(***************************************************************************)
C29_OutOfOrderPshOnlyAcked ==
    [][\A e \in E : \A m \in net[e] :
          (/\ rl_pc[e] = "recv" /\ m.seq # ack[e]
           /\ UNCHANGED <<snd_pc, timers, send_buffer>>
           /\ IsPsh(m)
           /\ RlReceiveOf(e, m))
          => /\ recv_buffer' = recv_buffer
             /\ ack' = ack
             /\ PackSegment(e, remote_addr[e], "ACK", seq[e], ack[e],
                            recv_window[e], <<>>) \in net'[m.src]]_vars

\* A retransmitted copy of a segment already received has been answered: the
\* receiver holds the byte, and a second timer pass has happened.
C29_Witness ==
    /\ Appended("s") >= 1
    /\ \E m \in net["s"] : IsPsh(m) /\ m.seq < ack["s"]
    /\ \E t \in TimerThreads("c") : t.pc = "endchk"

\* A FIN segment among the datagrams e can receive.
IsFin(m) == ~UnpackRaises(m) /\ UnpackSegment(m).flags = "FIN"

\* The FIN segments of a set of datagrams.
Fins(ds) == {x \in ds : IsFin(x)}

(***************************************************************************)
(* C30.  When the receiver loop processes a FIN it sets fin_received and   *)
(* sends an ACK for it (ack number ack + 1) to the source; if fin_sent is  *)
(* FALSE at that moment it then sends a FIN of its own to the source and   *)
(* sets fin_sent, and if fin_sent is TRUE it sends no FIN and leaves       *)
(* fin_sent alone.  Neither step changes seq, ack, send_buffer or          *)
(* recv_buffer.                                                            *)
(***************************************************************************)
C30_FinHandling ==
    [][\A e \in E :
          /\ \A m \in net[e] :
                (/\ rl_pc[e] = "recv" /\ m.data = <<>>
                 /\ UNCHANGED <<cls_pc, snd_pc, timers>>
                 /\ IsFin(m)
                 /\ RlReceiveOf(e, m))
                => /\ fin_received'[e]
                   /\ (udp_open[e] /\ m.src \in E)
                      => PackSegment(e, remote_addr'[e], "ACK", seq[e], ack[e] + 1,
                                     recv_window[e], <<>>) \in net'[m.src]
                   /\ (rl_pc'[e] = "fin_tail") <=> ~fin_sent[e]
                   /\ fin_sent' = fin_sent
                   /\ \A d \in E : Fins(net'[d]) = Fins(net[d])
                   /\ UNCHANGED tcpVars
          /\ (rl_pc[e] = "fin_tail" /\ rl_pc'[e] # "fin_tail")
             => /\ fin_sent'[e]
                /\ (udp_open[e] /\ rl_addr[e] \in E)
                   => PackSegment(e, remote_addr[e], "FIN", seq[e], ack[e] + 1,
                                  recv_window[e], <<>>) \in net'[rl_addr[e]]
                /\ UNCHANGED tcpVars]_vars

\* Both cases have happened: "s" received the FIN of "c" before sending one
\* and has echoed it; "c" received that FIN after its own and sent none.
C30_Witness ==
    /\ fin_received["s"] /\ fin_sent["s"]
    /\ fin_received["c"] /\ fin_sent["c"]
    /\ rl_pc["c"] = "recv"
    /\ Cardinality(Fins(net["s"])) = 1

(***************************************************************************)
(* Teardown with both applications calling close(), in any order and at    *)
(* any moment, on an established connection that carries no data (so the   *)
(* drain loop of close() ends at once).                                    *)
(***************************************************************************)
NextTeardown ==
    \/ \E e \in E : AppClose(e)
    \/ \E e \in E : CloseDrained(e)
    \/ \E e \in E : CloseSendFin(e)
    \/ \E e \in E : CloseWaitEnd(e)
    \/ \E e \in E : CloseStop(e)
    \/ \E e \in E : CloseDisconnect(e)
    \/ \E e \in E : CloseRelease(e)
    \/ \E e \in E : RlReceive(e)
    \/ \E e \in E : RlAckTail(e)
    \/ \E e \in E : RlFinTail(e)
    \/ \E e \in E : RlReadTimeout(e)
    \/ \E e \in E : RlSocketClosed(e)

SpecTeardown == InitClose /\ [][NextTeardown]_vars

\* A thread is between its read of fin_sent and its write of it: close()
\* after `if not self.fin_sent`, the receiver loop after the same test.
CloseInFinSection(e) == cls_pc[e] = "fin_send"
LoopInFinSection(e) == rl_pc[e] = "fin_tail"

(***************************************************************************)
(* C31.  The read-modify-write sequences on the shared connection state    *)
(* exclude one another, as they do when each holds the connection lock     *)
(* for its whole duration: the caller's thread in close() and the receiver *)
(* loop are never both between their read of fin_sent and their write of   *)
(* it.                                                                     *)
(***************************************************************************)
C31_ReadModifyWriteExclusive ==
    \A e \in E : ~(CloseInFinSection(e) /\ LoopInFinSection(e))

\* The step in which e transmits a FIN: the one of close() or the one of the
\* receiver loop (each sets fin_sent right after its sendto).
TransmitsFin(e) ==
    \/ cls_pc[e] = "fin_send" /\ cls_pc'[e] # "fin_send"
    \/ rl_pc[e] = "fin_tail" /\ rl_pc'[e] # "fin_tail"

(***************************************************************************)
(* C38.  An endpoint transmits its FIN at most once per connection: no     *)
(* step transmits a FIN of an endpoint that has transmitted one already,   *)
(* whatever the interleaving of close() with the FIN handling of the       *)
(* receiver loop.                                                          *)
(***************************************************************************)
C38_FinTransmittedOnce ==
    [][\A e \in E : TransmitsFin(e) => ~fin_sent[e]]_vars

(***************************************************************************)
(* Data transfer and close() on "c" in the runs in which every outstanding *)
(* segment is acknowledged within the 15 seconds of the drain loop: as     *)
(* SpecClose, without the expiry of that loop.                             *)
(***************************************************************************)
NextDrain ==
    \/ AppSend("c")
    \/ SendChunk("c")
    \/ SendArm("c")
    \/ \E e \in E : RlReceive(e)
    \/ \E e \in E : RlAckTail(e)
    \/ \E e \in E : RlFinTail(e)
    \/ \E e \in E : RlReadTimeout(e)
    \/ \E e \in E : RlSocketClosed(e)
    \/ TimerLoopHead("c")
    \/ TimerScan("c")
    \/ TimerResend("c")
    \/ TimerEndCheck("c")
    \/ TimerExit("c")
    \/ AppClose("c")
    \/ CloseDrained("c")
    \/ CloseSendFin("c")
    \/ CloseWaitEnd("c")
    \/ CloseStop("c")
    \/ CloseDisconnect("c")
    \/ CloseRelease("c")

SpecDrain == InitClose /\ [][NextDrain]_vars

\* The sequence number that follows the last byte passed to send() on e.
SeqAfterData(e) == isn[e] + 1 + Len(sent[e])

(***************************************************************************)
(* C32.  When every outstanding segment is acknowledged within the drain   *)
(* bound, close() transmits its FIN only with send_buffer empty, and the   *)
(* FIN carries the sequence number that follows the last data byte.        *)
(***************************************************************************)
C32_FinAfterDrain ==
    [][\A e \in E :
          (cls_pc[e] = "fin_send" /\ cls_pc'[e] = "wait")
          => /\ IsEmpty(send_buffer[e])
             /\ \E m \in net'[Peer(e)] :
                   /\ IsFin(m)
                   /\ m.src = e
                   /\ m.seq = SeqAfterData(e)
                   /\ m.seq = seq[e]]_vars

\* close() has sent its FIN after a byte of data was sent and acknowledged.
C32_Witness ==
    /\ cls_pc["c"] = "wait"
    /\ Len(sent["c"]) = CloseBytes
    /\ \E m \in net["s"] : IsFin(m) /\ m.seq = SeqAfterData("c")

\* close() has returned on both endpoints.
BothClosed == \A e \in E : cls_pc[e] = "done"

(***************************************************************************)
(* C33.  When close() has been called on both sides of an established      *)
(* connection and has returned on both, over a channel that drops nothing, *)
(* each side has fin_sent, fin_received and fin_acked TRUE and connected   *)
(* FALSE.                                                                  *)
(***************************************************************************)
C33_TeardownCompletes ==
    BothClosed
    => \A e \in E : fin_sent[e] /\ fin_received[e] /\ fin_acked[e] /\ ~connected[e]

\* connect() on "c" and accept() on "s" have both completed.
HandshakeDone == hs_pc["c"] = "done" /\ hs_pc["s"] = "done"

(***************************************************************************)
(* C34.  When connect() and accept() have both completed, the seq of each  *)
(* side is its own initial sequence number plus 1 and equals the ack of    *)
(* the peer: the first PSH segment of either side, which carries seq, has  *)
(* the sequence number the peer accepts as in-order.                       *)
(***************************************************************************)
C34_SeqAlignedAtEstablishment ==
    HandshakeDone
    => \A e \in E : seq[e] = isn[e] + 1 /\ seq[e] = ack[Peer(e)]

\* Both calls have completed with different initial sequence numbers.
C34_Witness ==
    /\ HandshakeDone
    /\ isn["c"] # isn["s"]
    /\ seq["s"] = ack["c"]

\* The SYN-ACK of e is among the datagrams transmitted to the address its
\* SYN came from.
RepliedSynAck(e) ==
    /\ remote_addr[e] \in E
    /\ \E y \in net[remote_addr[e]] :
          /\ ~UnpackRaises(y)
          /\ y.src = e
          /\ UnpackSegment(y).flags = "SYN-ACK"
          /\ y.seq = isn[e]
          /\ y.ack = ack[e]

\* An ACK segment acknowledging the initial sequence number of e is among
\* the datagrams e can receive.
FinalAckArrived(e) ==
    \E m \in net[e] :
       /\ ~UnpackRaises(m)
       /\ UnpackSegment(m).flags = "ACK"
       /\ m.ack = isn[e] + 1

(***************************************************************************)
(* C35.  The accepting side becomes connected only in a step of accept()   *)
(* that is waiting for the final ACK, after a SYN was received and the     *)
(* SYN-ACK sent, and only when an ACK segment whose ack field is its own   *)
(* initial sequence number plus 1 is there to receive; no other segment    *)
(* (a duplicate SYN, an ACK with another ack value) marks it connected.    *)
(***************************************************************************)
C35_ConnectedOnlyOnFinalAck ==
    [][(~connected["s"] /\ connected'["s"])
       => /\ hs_pc["s"] = "ack_wait"
          /\ seq["s"] = isn["s"]
          /\ RepliedSynAck("s")
          /\ FinalAckArrived("s")]_vars

\* accept() has completed although a foreign ACK and a retransmitted SYN
\* were sent to the accepting socket.
C35_Witness ==
    /\ connected["s"]
    /\ hs_pc["s"] = "done"
    /\ junk > 0
    /\ syn_sent > 1

(***************************************************************************)
(* The Go-Back-N sender and receiver over a short run of send() calls.     *)
(***************************************************************************)
NextGbnWindow ==
    \/ gbn.nextseq < MaxGbnBurst /\ GbnSend
    \/ GbnTimerExpires
    \/ GbnOnTimeout
    \/ GbnReceiveAck
    \/ GbnReceive

SpecGbnWindow == InitGbn /\ [][NextGbnWindow]_vars

\* The datagram the sender's _recv_loop takes in this step.
GbnAckTaken == gbn.to_snd \ gbn'.to_snd

(***************************************************************************)
(* C36.  In every reachable state of the Go-Back-N sender                  *)
(* base <= nextseq <= base + N and the buffer holds exactly the packets    *)
(* with absolute sequence numbers base .. nextseq - 1; base never          *)
(* decreases; and an ACK whose number matches no seq % 256 in that range   *)
(* changes nothing (it is only consumed).                                  *)
(***************************************************************************)
C36_GbnSenderWindow ==
    /\ [](/\ gbn.base <= gbn.nextseq
          /\ gbn.nextseq <= gbn.base + gbn.N
          /\ DOMAIN gbn.buffer = gbn.base..(gbn.nextseq - 1)
          /\ \A sq \in DOMAIN gbn.buffer :
                gbn.buffer[sq] = make_packet(TYPE_DATA, sq % SeqSpace, sq + 1))
    /\ [][/\ gbn'.base >= gbn.base
          /\ \A pkt \in GbnAckTaken :
                (\A sq \in gbn.base..(gbn.nextseq - 1) : sq % SeqSpace # pkt.seq)
                => gbn' = [gbn EXCEPT !.to_snd = gbn'.to_snd]]_vars

\* The window is full with more than one packet outstanding, after an ACK
\* has advanced base, and an ACK that matches nothing is in flight.
C36_Witness ==
    /\ gbn.base > 0
    /\ gbn.N > 1
    /\ gbn.nextseq = gbn.base + gbn.N
    /\ \E pkt \in gbn.to_snd :
          \A sq \in gbn.base..(gbn.nextseq - 1) : sq % SeqSpace # pkt.seq

(***************************************************************************)
(* The handshake between "c" and "s" alone, over a channel that may lose   *)
(* any datagram, with fair scheduling: a thread that can take its next     *)
(* step eventually takes it, a recvfrom with a datagram to return          *)
(* eventually returns, and a wait with a time bound eventually ends.       *)
(***************************************************************************)
NextHalfOpen ==
    \/ ConnectCall("c")
    \/ ConnectSendSyn("c")
    \/ ConnectRecv("c")
    \/ ConnectTimeout("c")
    \/ ConnectSendAck("c")
    \/ AcceptCall("s")
    \/ AcceptRecv("s")
    \/ AcceptListenTimeout("s")
    \/ AcceptRecvAck("s")
    \/ AcceptAckTimeout("s")
    \/ \E e \in E : RlReceive(e)
    \/ \E e \in E : RlReadTimeout(e)

FairHalfOpen ==
    /\ WF_vars(ConnectCall("c"))
    /\ WF_vars(ConnectSendSyn("c"))
    /\ WF_vars(ConnectRecv("c"))
    /\ WF_vars(ConnectSendAck("c"))
    /\ WF_vars(AcceptCall("s"))
    /\ WF_vars(AcceptRecv("s"))
    /\ WF_vars(AcceptRecvAck("s"))
    /\ WF_vars(AcceptAckTimeout("s"))

SpecHalfOpen == InitHs /\ [][NextHalfOpen]_vars /\ FairHalfOpen

(***************************************************************************)
(* C37.  Once connect() has returned successfully on "c", accept() on "s"  *)
(* eventually returns with "s" connected, also when the final ACK of "c"   *)
(* is lost: the client connected and the server not is never a permanent   *)
(* condition.                                                              *)
(***************************************************************************)
C37_NoPermanentHalfOpen ==
    (hs_pc["c"] = "done") ~> (hs_pc["s"] = "done" /\ connected["s"])

(***************************************************************************)
(* One thread of "c" calling send() once, with enough data to fill the     *)
(* send window, and the receiver loops of both sides.  The timer threads, which *)
(* add no entry to send_buffer and remove none, are started and stay at    *)
(* their loop head.                                                        *)
(***************************************************************************)
NextWindow ==
    \/ SendCallWithin("c", MaxWindowBytes) /\ Len(sent'["c"]) = MaxWindowBytes
    \/ SendChunk("c")
    \/ SendArm("c")
    \/ \E e \in E : RlReceive(e)
    \/ \E e \in E : RlAckTail(e)

SpecWindow == InitXfer /\ [][NextWindow]_vars

\* Number of entries of send_buffer, and the payload bytes they hold.
Outstanding(e) == Cardinality(DOMAIN send_buffer[e])
RECURSIVE BytesOf(_, _)
BytesOf(sb, keys) ==
    IF keys = {} THEN 0
    ELSE LET k == CHOOSE j \in keys : TRUE
         IN  Len(sb[k].data) + BytesOf(sb, keys \ {k})
BytesInFlight(e) == BytesOf(send_buffer[e], DOMAIN send_buffer[e])

(***************************************************************************)
(* C39.  With one thread calling send(), send_buffer never holds more than *)
(* 8 segments, each with a payload of at most recv_window bytes, so the    *)
(* bytes in flight never exceed 8 * recv_window; while 8 segments are      *)
(* outstanding send() adds none, and with fewer than 8 outstanding the     *)
(* waiting send() can go on with its next chunk.                           *)
(***************************************************************************)
C39_SendWindowBound ==
    /\ [](\A e \in E :
            /\ Outstanding(e) <= WindowSegments
            /\ \A k \in DOMAIN send_buffer[e] :
                  Len(send_buffer[e][k].data) \in 1..recv_window[e]
            /\ BytesInFlight(e) <= WindowSegments * recv_window[e]
            /\ (snd_pc[e] = "chunk" /\ Outstanding(e) < WindowSegments)
                  => ENABLED SendChunk(e))
    /\ [][\A e \in E :
            Outstanding(e) = WindowSegments
               => DOMAIN send_buffer'[e] \subseteq DOMAIN send_buffer[e]]_vars

\* send() has waited with 8 segments outstanding and has gone on after an ACK:
\* the ninth byte is sent and the window is full again.
C39_Witness ==
    /\ Outstanding("c") = WindowSegments
    /\ seq["c"] = isn["c"] + 1 + MaxWindowBytes
    /\ recv_window["c"] = 1

(***************************************************************************)
(* The two locks of one TCPSocket: self.lock ("lock") and                  *)
(* self._timer_lock ("tlock"), both threading.Lock, not reentrant.  Each   *)
(* thread is at an acquisition (the entry of a `with` block, where it      *)
(* waits until the lock is free) or at a release (the end of the block).   *)
(* The conditions on send_buffer that choose a branch are left open.       *)
(***************************************************************************)
LockThreads == {"send", "recv", "loop", "timer"}
LockNames == {"lock", "tlock"}

\* _handle_ack: `with self.lock:` encloses `with self._timer_lock:`.
NestedOrderSwapped == <<"tlock", "lock">>
NestedOrder == <<"lock", "tlock">>

\* The next datagram of _receive_loop is an ACK or a PSH.
LoopEntry == {"ack_outer", "psh_lock"}

\* What a thread does at each position, and where it can go next.
LkOp(pc) ==
    CASE \* send(): with self.lock (168-179), then _start_timer() (181, 360-363)
         pc = "send_lock"     -> [op |-> "acq", l |-> "lock",  next |-> {"send_unlock"}]
      [] pc = "send_unlock"   -> [op |-> "rel", l |-> "lock",  next |-> {"send_tlock"}]
      [] pc = "send_tlock"    -> [op |-> "acq", l |-> "tlock", next |-> {"send_tunlock"}]
      [] pc = "send_tunlock"  -> [op |-> "rel", l |-> "tlock", next |-> {"send_lock"}]
         \* recv(): with self.lock (197-201)
      [] pc = "recv_lock"     -> [op |-> "acq", l |-> "lock",  next |-> {"recv_unlock"}]
      [] pc = "recv_unlock"   -> [op |-> "rel", l |-> "lock",  next |-> {"recv_lock"}]
         \* _receive_loop, PSH: with self.lock (292-295)
      [] pc = "psh_lock"      -> [op |-> "acq", l |-> "lock",  next |-> {"psh_unlock"}]
      [] pc = "psh_unlock"    -> [op |-> "rel", l |-> "lock",  next |-> LoopEntry]
         \* _handle_ack: with self.lock (336), if not self.send_buffer: with
         \* self._timer_lock (348-351); after the block, if self.send_buffer:
         \* _start_timer() (354-356, 360-363)
      [] pc = "ack_outer"     -> [op |-> "acq", l |-> NestedOrder[1],
                                  next |-> {"ack_inner", "ack_outer_end"}]
      [] pc = "ack_inner"     -> [op |-> "acq", l |-> NestedOrder[2], next |-> {"ack_inner_end"}]
      [] pc = "ack_inner_end" -> [op |-> "rel", l |-> NestedOrder[2], next |-> {"ack_outer_end"}]
      [] pc = "ack_outer_end" -> [op |-> "rel", l |-> NestedOrder[1],
                                  next |-> LoopEntry \cup {"ack_tlock"}]
      [] pc = "ack_tlock"     -> [op |-> "acq", l |-> "tlock", next |-> {"ack_tunlock"}]
      [] pc = "ack_tunlock"   -> [op |-> "rel", l |-> "tlock", next |-> LoopEntry]
         \* timer_loop: with self.lock (371-377); per resent segment with
         \* self.lock (383-385); with self.lock (390-392); after the loop with
         \* self._timer_lock (394-395).  A later _start_timer starts the next
         \* timer_loop thread.
      [] pc = "timer_scan"       -> [op |-> "acq", l |-> "lock",
                                     next |-> {"timer_scan_end"}]
      [] pc = "timer_scan_end"   -> [op |-> "rel", l |-> "lock",
                                     next |-> {"timer_touch", "timer_check"}]
      [] pc = "timer_touch"      -> [op |-> "acq", l |-> "lock", next |-> {"timer_touch_end"}]
      [] pc = "timer_touch_end"  -> [op |-> "rel", l |-> "lock", next |-> {"timer_check"}]
      [] pc = "timer_check"      -> [op |-> "acq", l |-> "lock", next |-> {"timer_check_end"}]
      [] pc = "timer_check_end"  -> [op |-> "rel", l |-> "lock",
                                     next |-> {"timer_scan", "timer_tlock"}]
      [] pc = "timer_tlock"      -> [op |-> "acq", l |-> "tlock", next |-> {"timer_tunlock"}]
      [] pc = "timer_tunlock"    -> [op |-> "rel", l |-> "tlock", next |-> {"timer_scan"}]

LocksInitial ==
    [pc |-> "locks",
     owner |-> [l \in LockNames |-> "free"],
     at |-> [t \in LockThreads |->
                CASE t = "send" -> "send_lock"
                  [] t = "recv" -> "recv_lock"
                  [] t = "loop" -> "ack_outer"
                  [] t = "timer" -> "timer_scan"]]

LkFrame ==
    UNCHANGED <<isn, recv_window, rttVars, codecVars, arqVars, tcpVars, lifeVars,
                flagVars, udpVars, timerVars, net, rlVars, hsVars, sndVars,
                rcv_pc, cls_pc, histVars, junk>>

\* Entering a `with` block: the thread waits until the lock is free.
LkAcquire(t) ==
    /\ lk # Absent
    /\ LET o == LkOp(lk.at[t])
       IN  /\ o.op = "acq"
           /\ lk.owner[o.l] = "free"
           /\ \E n \in o.next :
                 lk' = [lk EXCEPT !.owner[o.l] = t, !.at[t] = n]
    /\ LkFrame

\* Leaving a `with` block.
LkRelease(t) ==
    /\ lk # Absent
    /\ LET o == LkOp(lk.at[t])
       IN  /\ o.op = "rel"
           /\ lk.owner[o.l] = t
           /\ \E n \in o.next :
                 lk' = [lk EXCEPT !.owner[o.l] = "free", !.at[t] = n]
    /\ LkFrame

InitLocks ==
    /\ Constructed
    /\ isn = [e \in E |-> InitialSeq(e)]
    /\ NoArq
    /\ lk = LocksInitial

NextLocks ==
    \/ \E t \in LockThreads : LkAcquire(t)
    \/ \E t \in LockThreads : LkRelease(t)

\* A thread inside a `with` block leaves it; a thread waiting for a lock that
\* is free again and again obtains it.
FairLocks ==
    \A t \in LockThreads : SF_vars(LkAcquire(t)) /\ WF_vars(LkRelease(t))

SpecLocks == InitLocks /\ [][NextLocks]_vars /\ FairLocks

Holds(t, l) == lk.owner[l] = t
Requests(t, l) == LkOp(lk.at[t]).op = "acq" /\ LkOp(lk.at[t]).l = l
\* The thread that holds the lock t is waiting for, "none" if t is not kept waiting.
WaitsFor(t) ==
    IF \E l \in LockNames : Requests(t, l) /\ lk.owner[l] # "free"
    THEN lk.owner[LkOp(lk.at[t]).l]
    ELSE "none"
Deadlocked(t) ==
    \/ WaitsFor(t) = t
    \/ WaitsFor(t) # "none" /\ WaitsFor(WaitsFor(t)) = t

(***************************************************************************)
(* C40.  The two locks cannot deadlock: a thread that requests the timer   *)
(* lock holds nothing or only the connection lock, no thread requests the  *)
(* connection lock while it holds the timer lock, no set of threads waits  *)
(* for one another, and every thread that requests a lock eventually       *)
(* holds it.                                                               *)
(***************************************************************************)
C40_LocksCannotDeadlock ==
    /\ [](\A t \in LockThreads :
            /\ Requests(t, "tlock") => ~Holds(t, "tlock")
            /\ Requests(t, "lock") => ~Holds(t, "lock") /\ ~Holds(t, "tlock")
            /\ ~Deadlocked(t))
    /\ \A t \in LockThreads : \A l \in LockNames :
            Requests(t, l) ~> Holds(t, l)

\* _handle_ack holds both locks while send() waits for the timer lock and the
\* timer thread waits for the connection lock.
C40_Witness ==
    /\ lk # Absent
    /\ Holds("loop", "lock") /\ Holds("loop", "tlock")
    /\ Requests("send", "tlock")
    /\ Requests("timer", "lock")

====
